---- MODULE Spec2Model ----
(***************************************************************************)
(* Relation-based access control engine of go-tangra-paperless.           *)
(*                                                                         *)
(* internal/authz/engine.go: Engine (Check, checkDirectPermission,         *)
(* checkHierarchy, Grant, Revoke, ListPermissions,                         *)
(* ListAccessibleResources, GetEffectivePermissions) and the Checker.     *)
(*                                                                         *)
(* Engine.Check is modelled one port call per step, so that the caller's   *)
(* context can be cancelled and the clock can advance between two port     *)
(* calls.  The two ports (PermissionStore, ResourceLookup) are interfaces: *)
(* their behaviour is the contract of spec.md sections 3, 4.1 and 6.       *)
(***************************************************************************)
EXTENDS Integers, Sequences, FiniteSets, Bags, TLC

\* ------------------------------------------------------------------------
\* Bounds
\* ------------------------------------------------------------------------
\* Largest number of tuples (copies counted) the store holds.
MaxTuples == 2
\* The clock runs over 0..MaxTime.
MaxTime == 1

\* ------------------------------------------------------------------------
\* Enumerations
\* ------------------------------------------------------------------------
ResourceTypeDocument == "RESOURCE_TYPE_DOCUMENT"
ResourceTypeCategory == "RESOURCE_TYPE_CATEGORY"

SubjectTypeUser == "SUBJECT_TYPE_USER"
SubjectTypeRole == "SUBJECT_TYPE_ROLE"
SubjectTypeTenant == "SUBJECT_TYPE_TENANT"

RelationUnspecified == "RELATION_UNSPECIFIED"
RelationViewer == "RELATION_VIEWER"
RelationEditor == "RELATION_EDITOR"
RelationSharer == "RELATION_SHARER"
RelationOwner == "RELATION_OWNER"

PermissionRead == "PERMISSION_READ"
PermissionWrite == "PERMISSION_WRITE"
PermissionDelete == "PERMISSION_DELETE"
PermissionShare == "PERMISSION_SHARE"
PermissionDownload == "PERMISSION_DOWNLOAD"

Relations ==
  {RelationUnspecified, RelationViewer, RelationEditor, RelationSharer, RelationOwner}

Permissions ==
  {PermissionRead, PermissionWrite, PermissionDelete, PermissionShare, PermissionDownload}

\* A nil pointer (*string, *Relation).
Nil == "nil"
\* A nil *time.Time in PermissionTuple.ExpiresAt.
NoExpiry == -1
\* The reserved subject id of SubjectTypeTenant.
TenantAll == "all"

\* Grants table: relation -> permission set.
GrantsTable ==
  [r \in Relations |->
     CASE r = RelationOwner ->
            {PermissionRead, PermissionWrite, PermissionDelete, PermissionShare, PermissionDownload}
       [] r = RelationEditor -> {PermissionRead, PermissionWrite, PermissionDownload}
       [] r = RelationViewer -> {PermissionRead, PermissionDownload}
       [] r = RelationSharer -> {PermissionRead, PermissionShare, PermissionDownload}
       [] OTHER -> {}]

RelationGrantsPermission(relation, permission) ==
  relation \in Relations /\ permission \in GrantsTable[relation]

\* Relation ranking: Owner > Editor > Sharer > Viewer > Unspecified.
RelationRank(relation) ==
  CASE relation = RelationOwner -> 4
    [] relation = RelationEditor -> 3
    [] relation = RelationSharer -> 2
    [] relation = RelationViewer -> 1
    [] OTHER -> 0

IsRelationAtLeast(relation, required) ==
  RelationRank(relation) >= RelationRank(required)

\* ------------------------------------------------------------------------
\* The universe of the model
\* ------------------------------------------------------------------------
\* The tenant the calls are made for, and a second tenant.
TenantID == 1
OtherTenantID == 2

UserID == "u1"
RoleA == "r1"
RoleB == "r2"

Categories == {"c1", "c2"}
Documents == {"d1"}

Resource(resourceType, resourceID) ==
  [resourceType |-> resourceType, resourceID |-> resourceID]

Resources ==
  {Resource(ResourceTypeDocument, d) : d \in Documents}
    \cup {Resource(ResourceTypeCategory, c) : c \in Categories}

Subject(subjectType, subjectID) ==
  [subjectType |-> subjectType, subjectID |-> subjectID]

Subjects ==
  {Subject(SubjectTypeUser, UserID), Subject(SubjectTypeRole, RoleA),
   Subject(SubjectTypeRole, RoleB), Subject(SubjectTypeTenant, TenantAll)}

\* What GetUserRoleIDs can return for UserID: the roles of the request
\* context, in the order given there.
RoleLists == {<<RoleB, RoleA>>}

ExpiryTimes == {NoExpiry} \cup (0 .. (MaxTime - 1))

\* PermissionTuple; ID, GrantedBy and CreateTime are never read by the engine.
PermissionTuple(tenantID, res, relation, subj, expiresAt) ==
  [tenantID |-> tenantID,
   resourceType |-> res.resourceType, resourceID |-> res.resourceID,
   relation |-> relation,
   subjectType |-> subj.subjectType, subjectID |-> subj.subjectID,
   expiresAt |-> expiresAt]

\* ------------------------------------------------------------------------
\* State
\* ------------------------------------------------------------------------
VARIABLES
  store,            \* PermissionStore: bag of PermissionTuple (duplicates legal)
  parent,           \* category id -> parent category id or Nil
  docCat,           \* document id -> category id or Nil
  parentOther,      \* parent, in the hierarchy of the second tenant
  docCatOther,      \* docCat, in the hierarchy of the second tenant
  userRoles,        \* the role ids GetUserRoleIDs returns for UserID
  now,              \* time.Now()
  faults,           \* the positions of a call at which its port call may fail
  op,               \* the public method in flight or last returned
  pc,               \* position of that call
  cancelled,        \* ctx.Done() of that call is closed
  check,            \* CheckContext of the running Engine.Check
  roleIDs,          \* Check: roleIDs (nil is the empty sequence)
  i,                \* index of the role loops
  categoryID,       \* checkHierarchy: categoryID of the current level
  visited,          \* checkHierarchy: visited
  result,           \* CheckResult of the running / last Engine.Check
  k,                \* GetEffectivePermissions: index of the permission loop
  permissions,      \* GetEffectivePermissions: permissions (map keys)
  highestRelation,  \* GetEffectivePermissions: highestRelation
  resources,        \* ListAccessibleResources, ListPermissions: the returned slice
  err,              \* error returned by the last Checker / Engine call, or Nil
  errs,             \* history: a port call of the running call failed
  via,              \* history: <<tuple, time>> of the sub-check that allowed
  walk,             \* history: the categories evaluated by checkHierarchy, in order
  log,              \* history: the CheckResults GetEffectivePermissions received
  revoked,          \* history: the tuples the last Revoke with a nil relation removed
  args,             \* history: the arguments of the Checker method in flight
  ret,              \* (bool, string) returned by Checker.CheckPermission
  failed,           \* history: the subject types whose ListResourcesBySubject failed
  seen,             \* history: the store before and after each write made during the call
  documents,        \* documentRepo: the ids of the documents that are not deleted
  categories,       \* categoryRepo: the ids of the categories that are not deleted
  svc,              \* the service handler in flight: its request and loop index
  allowedIDs,       \* BatchDeleteDocuments: allowedIDs
  checks,           \* history: id and CheckResult.Allowed of each check of the handler
  handed,           \* history: the ids the handler passed to the repository's delete
  deleted,          \* history: the resources the repository deleted for the handler
  response,         \* the response or error of the last service handler
  proc,             \* the ProcessDocument call in flight or last returned
  status,           \* documentRepo: document id -> processing status
  written           \* history: the statuses that call has written, in order

lookupVars == <<parent, docCat, parentOther, docCatOther, userRoles, faults>>
\* The repositories and handlers of the services above the engine.
serviceVars == <<documents, categories, svc, allowedIDs, checks, handed, deleted, response,
                 proc, status, written>>
\* What no method of the engine or of the Checker changes.
hierVars == <<lookupVars, serviceVars>>
gepVars == <<k, permissions, highestRelation, log>>
callVars == <<args, ret, failed, seen>>
\* What no step of Engine.Check changes.
outer == <<store, hierVars, now, op, cancelled, check, err, gepVars, resources, revoked, callVars>>
vars == <<store, parent, docCat, parentOther, docCatOther, userRoles, now, faults, op, pc, cancelled, check, roleIDs, i,
          categoryID, visited, result, k, permissions, highestRelation, resources,
          err, errs, via, walk, log, revoked, args, ret, failed, seen,
          documents, categories, svc, allowedIDs, checks, handed, deleted, response,
          proc, status, written>>

\* MIME types and processing statuses of document_processor.go.
mimeTypePDF == "application/pdf"
mimeTypeDOC == "application/msword"
mimeTypeDOCX == "application/vnd.openxmlformats-officedocument.wordprocessingml.document"
\* A MIME type the processor does not support.
mimeTypeOther == "text/plain"

statusPending == "PROCESSING_STATUS_PENDING"
statusProcessing == "PROCESSING_STATUS_PROCESSING"
statusCompleted == "PROCESSING_STATUS_COMPLETED"
statusFailed == "PROCESSING_STATUS_FAILED"
statusSkipped == "PROCESSING_STATUS_SKIPPED"

\* The frame of a ProcessDocument call: its position, its arguments and
\* which of its steps failed.
Process(position, documentID, mimeType) ==
  [pc |-> position, documentID |-> documentID, mimeType |-> mimeType,
   conversionFailed |-> FALSE, extractionFailed |-> FALSE, metadataFailed |-> FALSE]
NoProcess == Process("idle", "", "")

\* A service request in flight: the handler, the requested ids, the
\* permanent / force flag and the number of ids checked so far.
Service(name, ids, flag) == [name |-> name, ids |-> ids, flag |-> flag, n |-> 0]
NoService == Service("none", <<>>, FALSE)

\* What a handler returns: an error, or DeletedCount and FailedIds (both
\* empty in an emptypb.Empty).
Response(error, deletedCount, failedIDs) ==
  [err |-> error, DeletedCount |-> deletedCount, FailedIds |-> failedIDs]
NoResponse == Response(Nil, 0, <<>>)

CheckContext(tenantID, userID, res, permission) ==
  [TenantID |-> tenantID, UserID |-> userID,
   ResourceType |-> res.resourceType, ResourceID |-> res.resourceID,
   Permission |-> permission]

CheckResult(allowed, relation, reason) ==
  [Allowed |-> allowed, Relation |-> relation, Reason |-> reason]

\* The zero CheckResult and CheckContext.
NoResult == CheckResult(FALSE, Nil, "")
NoCheck == CheckContext(0, "", Resource("", ""), "")

\* ------------------------------------------------------------------------
\* PermissionStore port
\* ------------------------------------------------------------------------
\* The tuples a HasPermission lookup matches.
Matching(tenantID, resourceType, resourceID, subjectType, subjectID) ==
  {t \in BagToSet(store) :
     /\ t.tenantID = tenantID
     /\ t.resourceType = resourceType /\ t.resourceID = resourceID
     /\ t.subjectType = subjectType /\ t.subjectID = subjectID}

\* A port response: an error, nothing, or one tuple.
ErrResponse == [err |-> TRUE, found |-> <<>>]
NotFound == [err |-> FALSE, found |-> <<>>]
Found(t) == [err |-> FALSE, found |-> <<t>>]

\* The port call made at the current position may fail.
MayFail == pc \in faults

\* HasPermission returns at most one matching tuple: any of them when the
\* subject holds several on the resource.  It fails when the context is
\* cancelled.
HasPermission(tenantID, resourceType, resourceID, subjectType, subjectID) ==
  LET m == Matching(tenantID, resourceType, resourceID, subjectType, subjectID)
  IN  IF cancelled THEN {ErrResponse}
      ELSE (IF MayFail THEN {ErrResponse} ELSE {})
             \cup (IF m = {} THEN {NotFound} ELSE {Found(t) : t \in m})

\* CreatePermission inserts the tuple; no uniqueness is enforced.
CreatePermission(tuple) == store (+) SetToBag({tuple})

\* DeletePermission removes every tuple of the subject on the resource whose
\* relation is the given one; a nil relation matches every relation.
DeletePermission(tenantID, resourceType, resourceID, relation, subjectType, subjectID) ==
  LET del == {t \in Matching(tenantID, resourceType, resourceID, subjectType, subjectID) :
                relation = Nil \/ t.relation = relation}
      keep == BagToSet(store) \ del
  IN  [t \in keep |-> store[t]]

\* GetDirectPermissions: the tuples stored on the resource, copies included.
GetDirectPermissions(tenantID, resourceType, resourceID) ==
  LET on == {t \in BagToSet(store) :
               /\ t.tenantID = tenantID
               /\ t.resourceType = resourceType /\ t.resourceID = resourceID}
  IN  [t \in on |-> store[t]]

\* ------------------------------------------------------------------------
\* ResourceLookup port
\* ------------------------------------------------------------------------
\* The hierarchy edges stored under a tenant.
ParentOf(tenantID, id) ==
  IF tenantID = TenantID THEN parent[id]
  ELSE IF tenantID = OtherTenantID THEN parentOther[id]
  ELSE Nil

CategoryOf(tenantID, id) ==
  IF tenantID = TenantID THEN docCat[id]
  ELSE IF tenantID = OtherTenantID THEN docCatOther[id]
  ELSE Nil

\* GetCategoryParentID / GetDocumentCategoryID: <<id>> or an error (<<>>);
\* they fail when the context is cancelled.
GetCategoryParentID(tenantID, id) ==
  IF cancelled THEN {<<>>}
  ELSE (IF MayFail THEN {<<>>} ELSE {}) \cup {<<ParentOf(tenantID, id)>>}

GetDocumentCategoryID(tenantID, id) ==
  IF cancelled THEN {<<>>}
  ELSE (IF MayFail THEN {<<>>} ELSE {}) \cup {<<CategoryOf(tenantID, id)>>}

\* GetUserRoleIDs: <<roles>> or an error (<<>>).  The provider returns the
\* roles of the request context, whatever the tenant and the user asked
\* for, and ignores cancellation.
GetUserRoleIDs(tenantID, userID) ==
  (IF MayFail THEN {<<>>} ELSE {}) \cup {<<userRoles>>}

\* ------------------------------------------------------------------------
\* Engine.checkDirectPermission
\* ------------------------------------------------------------------------
\* tuple.ExpiresAt != nil && tuple.ExpiresAt.Before(time.Now())
Expired(tuple, time) == tuple.expiresAt # NoExpiry /\ tuple.expiresAt < time

\* checkDirectPermission asking the grants table for Read, whatever is requested.
checkDirectPermission_ReadOnly(resp, permission, time) ==
  IF resp.err THEN CheckResult(FALSE, Nil, "error checking permission")
  ELSE IF resp.found = <<>> THEN CheckResult(FALSE, Nil, "no direct permission")
  ELSE IF Expired(resp.found[1], time) THEN CheckResult(FALSE, Nil, "permission expired")
  ELSE IF RelationGrantsPermission(resp.found[1].relation, PermissionRead)
       THEN CheckResult(TRUE, resp.found[1].relation, "direct permission")
  ELSE CheckResult(FALSE, Nil, "relation does not grant permission")

\* checkDirectPermission without the relation test of line 144.
checkDirectPermission_AnyRelation(resp, permission, time) ==
  IF resp.err THEN CheckResult(FALSE, Nil, "error checking permission")
  ELSE IF resp.found = <<>> THEN CheckResult(FALSE, Nil, "no direct permission")
  ELSE IF Expired(resp.found[1], time) THEN CheckResult(FALSE, Nil, "permission expired")
  ELSE CheckResult(TRUE, resp.found[1].relation, "direct permission")

\* checkDirectPermission without the expiry test of line 138.
checkDirectPermission_NoExpiry(resp, permission, time) ==
  IF resp.err THEN CheckResult(FALSE, Nil, "error checking permission")
  ELSE IF resp.found = <<>> THEN CheckResult(FALSE, Nil, "no direct permission")
  ELSE IF RelationGrantsPermission(resp.found[1].relation, permission)
       THEN CheckResult(TRUE, resp.found[1].relation, "direct permission")
  ELSE CheckResult(FALSE, Nil, "relation does not grant permission")

\* The body of checkDirectPermission after the HasPermission call returned resp.
checkDirectPermission(resp, permission, time) ==
  IF resp.err THEN CheckResult(FALSE, Nil, "error checking permission")
  ELSE IF resp.found = <<>> THEN CheckResult(FALSE, Nil, "no direct permission")
  ELSE IF Expired(resp.found[1], time) THEN CheckResult(FALSE, Nil, "permission expired")
  ELSE IF RelationGrantsPermission(resp.found[1].relation, permission)
       THEN CheckResult(TRUE, resp.found[1].relation, "direct permission")
  ELSE CheckResult(FALSE, Nil, "relation does not grant permission")

\* History of a sub-check: the tuple that allowed and the time it was read.
Via(resp) == <<[tuple |-> resp.found[1], at |-> now]>>

\* ------------------------------------------------------------------------
\* Engine.Check
\* ------------------------------------------------------------------------
Idle == pc \in {"idle", "done"}

\* The permission loop of GetEffectivePermissions.
PermissionOrder ==
  <<PermissionRead, PermissionWrite, PermissionDelete, PermissionShare, PermissionDownload>>

\* A fresh frame of Engine.Check.
NewCheck(c) ==
  /\ check' = c
  /\ roleIDs' = <<>>
  /\ i' = 0
  /\ categoryID' = Nil
  /\ visited' = {}
  /\ result' = NoResult
  /\ errs' = FALSE
  /\ via' = <<>>
  /\ walk' = <<>>

\* A fresh call of a public method: nothing cancelled, nothing returned yet.
NewCallWith(name, arguments) ==
  /\ Idle
  /\ op' = name
  /\ args' = arguments
  /\ ret' = <<>>
  /\ failed' = {}
  /\ seen' = {}
  /\ cancelled' = FALSE
  /\ resources' = <<>>
  /\ k' = 0
  /\ permissions' = {}
  /\ highestRelation' = RelationUnspecified
  /\ log' = <<>>

NewCall(name) == NewCallWith(name, <<>>)

\* Check returns result r.
Return(r) ==
  /\ result' = r
  /\ pc' = "return"

\* A Check that hands on the denial of its last sub-check.
ReturnNotFound_Inherited == Return(CheckResult(FALSE, Nil, "no inherited permission"))

\* Check falls through to the final return of line 119.
ReturnNotFound == Return(CheckResult(FALSE, Nil, "no permission found"))

\* Step 1 with a lookup that is not scoped to the tenant of the check.
Check_Step1_AnyTenant ==
  /\ pc = "step1"
  /\ \E tenantID \in {TenantID, OtherTenantID} :
     \E resp \in HasPermission(tenantID, check.ResourceType, check.ResourceID,
                               SubjectTypeUser, check.UserID) :
       LET r == checkDirectPermission(resp, check.Permission, now)
       IN  /\ errs' = (errs \/ resp.err)
           /\ IF r.Allowed
              THEN /\ Return(r)
                   /\ via' = Via(resp)
              ELSE /\ pc' = "step2"
                   /\ UNCHANGED <<result, via>>
  /\ UNCHANGED <<outer, roleIDs, i, categoryID, visited, walk>>

\* Step 2 where a failed role lookup ends the Check with a denial.
Check_GetUserRoleIDs_Abort ==
  /\ pc = "step2"
  /\ \E resp \in GetUserRoleIDs(check.TenantID, check.UserID) :
       LET ids == IF resp = <<>> THEN <<>> ELSE resp[1]
       IN  /\ errs' = (errs \/ resp = <<>>)
           /\ roleIDs' = ids
           /\ i' = IF ids = <<>> THEN 0 ELSE 1
           /\ IF resp = <<>>
              THEN ReturnNotFound
              ELSE /\ pc' = IF ids = <<>> THEN "step3" ELSE "step2role"
                   /\ UNCHANGED result
  /\ UNCHANGED <<outer, categoryID, visited, via, walk>>

\* Step 1 where a failed lookup ends the Check with a denial.
Check_Step1_Abort ==
  /\ pc = "step1"
  /\ \E resp \in HasPermission(check.TenantID, check.ResourceType, check.ResourceID,
                               SubjectTypeUser, check.UserID) :
       LET r == checkDirectPermission(resp, check.Permission, now)
       IN  /\ errs' = (errs \/ resp.err)
           /\ IF r.Allowed
              THEN /\ Return(r)
                   /\ via' = Via(resp)
              ELSE IF resp.err
              THEN /\ Return(r)
                   /\ UNCHANGED via
              ELSE /\ pc' = "step2"
                   /\ UNCHANGED <<result, via>>
  /\ UNCHANGED <<outer, roleIDs, i, categoryID, visited, walk>>

\* Step 1 without the return of line 94: an allowing user tuple is passed over.
Check_Step1_Continue ==
  /\ pc = "step1"
  /\ \E resp \in HasPermission(check.TenantID, check.ResourceType, check.ResourceID,
                               SubjectTypeUser, check.UserID) :
       /\ errs' = (errs \/ resp.err)
       /\ pc' = "step2"
       /\ UNCHANGED <<result, via>>
  /\ UNCHANGED <<outer, roleIDs, i, categoryID, visited, walk>>

\* Step 1 that deletes the tuple it read when the tuple is expired.
Check_Step1_Purge ==
  /\ pc = "step1"
  /\ \E resp \in HasPermission(check.TenantID, check.ResourceType, check.ResourceID,
                               SubjectTypeUser, check.UserID) :
       LET r == checkDirectPermission(resp, check.Permission, now)
       IN  /\ errs' = (errs \/ resp.err)
           /\ store' = IF ~resp.err /\ resp.found # <<>> /\ Expired(resp.found[1], now)
                       THEN DeletePermission(check.TenantID, check.ResourceType,
                                             check.ResourceID, resp.found[1].relation,
                                             SubjectTypeUser, check.UserID)
                       ELSE store
           /\ IF r.Allowed
              THEN /\ Return(r)
                   /\ via' = Via(resp)
              ELSE /\ pc' = "step2"
                   /\ UNCHANGED <<result, via>>
  /\ UNCHANGED <<hierVars, now, op, cancelled, check, err, gepVars, resources, revoked,
                 callVars, roleIDs, i, categoryID, visited, walk>>

\* Step 1: direct user permission on the resource.
Check_Step1 ==
  /\ pc = "step1"
  /\ \E resp \in HasPermission(check.TenantID, check.ResourceType, check.ResourceID,
                               SubjectTypeUser, check.UserID) :
       LET r == checkDirectPermission(resp, check.Permission, now)
       IN  /\ errs' = (errs \/ resp.err)
           /\ IF r.Allowed
              THEN /\ Return(r)
                   /\ via' = Via(resp)
              ELSE /\ pc' = "step2"
                   /\ UNCHANGED <<result, via>>
  /\ UNCHANGED <<outer, roleIDs, i, categoryID, visited, walk>>

\* Step 2: the user's roles; a failure is logged and leaves roleIDs nil.
Check_GetUserRoleIDs ==
  /\ pc = "step2"
  /\ \E resp \in GetUserRoleIDs(check.TenantID, check.UserID) :
       LET ids == IF resp = <<>> THEN <<>> ELSE resp[1]
       IN  /\ errs' = (errs \/ resp = <<>>)
           /\ roleIDs' = ids
           /\ i' = IF ids = <<>> THEN 0 ELSE 1
           /\ pc' = IF ids = <<>> THEN "step3" ELSE "step2role"
  /\ UNCHANGED <<outer, categoryID, visited, result, via, walk>>

\* Step 2, one iteration of the loop over roleIDs.
Check_Step2Role ==
  /\ pc = "step2role"
  /\ \E resp \in HasPermission(check.TenantID, check.ResourceType, check.ResourceID,
                               SubjectTypeRole, roleIDs[i]) :
       LET r == checkDirectPermission(resp, check.Permission, now)
       IN  /\ errs' = (errs \/ resp.err)
           /\ IF r.Allowed
              THEN /\ Return(r)
                   /\ via' = Via(resp)
                   /\ i' = i
              ELSE /\ pc' = IF i < Len(roleIDs) THEN "step2role" ELSE "step3"
                   /\ i' = IF i < Len(roleIDs) THEN i + 1 ELSE 0
                   /\ UNCHANGED <<result, via>>
  /\ UNCHANGED <<outer, roleIDs, categoryID, visited, walk>>

\* Step 3: tenant-level permission on the resource.
Check_Step3 ==
  /\ pc = "step3"
  /\ \E resp \in HasPermission(check.TenantID, check.ResourceType, check.ResourceID,
                               SubjectTypeTenant, TenantAll) :
       LET r == checkDirectPermission(resp, check.Permission, now)
       IN  /\ errs' = (errs \/ resp.err)
           /\ IF r.Allowed
              THEN /\ Return(r)
                   /\ via' = Via(resp)
              ELSE /\ pc' = "step4"
                   /\ UNCHANGED <<result, via>>
  /\ UNCHANGED <<outer, roleIDs, i, categoryID, visited, walk>>

\* ------------------------------------------------------------------------
\* Engine.checkHierarchy
\* ------------------------------------------------------------------------
\* The head of the loop without the visited test of line 183.
WalkFrom_NoVisited(parentCategoryID) ==
  IF parentCategoryID = Nil
  THEN /\ ReturnNotFound
       /\ UNCHANGED <<categoryID, visited, walk>>
  ELSE /\ categoryID' = parentCategoryID
       /\ visited' = visited \cup {parentCategoryID}
       /\ walk' = Append(walk, parentCategoryID)
       /\ pc' = "walkUser"
       /\ UNCHANGED result

\* The head of the loop over parentCategoryID: leave at nil or at a
\* visited id, else mark the id visited and evaluate that category.
WalkFrom(parentCategoryID) ==
  IF parentCategoryID = Nil \/ parentCategoryID \in visited
  THEN /\ ReturnNotFound
       /\ UNCHANGED <<categoryID, visited, walk>>
  ELSE /\ categoryID' = parentCategoryID
       /\ visited' = visited \cup {parentCategoryID}
       /\ walk' = Append(walk, parentCategoryID)
       /\ pc' = "walkUser"
       /\ UNCHANGED result

\* The result of an allowing level with the reason of the sub-check kept.
Inherited_Kept(r, reason) == r

\* The result of an allowing level, its reason rewritten.
Inherited(r, reason) == CheckResult(r.Allowed, r.Relation, reason)

\* The end of a level where a failed lookup of the next parent is passed
\* over and the walk goes on with the parent the hierarchy holds.
checkHierarchy_Next_Retry ==
  /\ pc = "walkNext"
  /\ \E resp \in GetCategoryParentID(check.TenantID, categoryID) :
       /\ errs' = (errs \/ resp = <<>>)
       /\ IF resp = <<>>
          THEN WalkFrom(ParentOf(check.TenantID, categoryID))
          ELSE WalkFrom(resp[1])
  /\ UNCHANGED <<outer, roleIDs, i, via>>

\* Step 4: the immediate parent category of the resource.
checkHierarchy_Start ==
  /\ pc = "step4"
  /\ \E resp \in (CASE check.ResourceType = ResourceTypeDocument ->
                         GetDocumentCategoryID(check.TenantID, check.ResourceID)
                    [] check.ResourceType = ResourceTypeCategory ->
                         GetCategoryParentID(check.TenantID, check.ResourceID)
                    [] OTHER -> {<<Nil>>}) :
       /\ errs' = (errs \/ resp = <<>>)
       /\ IF resp = <<>>
          THEN /\ ReturnNotFound
               /\ UNCHANGED <<categoryID, visited, walk>>
          ELSE WalkFrom(resp[1])
  /\ UNCHANGED <<outer, roleIDs, i, via>>

\* User permission on the category of the current level.
checkHierarchy_User ==
  /\ pc = "walkUser"
  /\ \E resp \in HasPermission(check.TenantID, ResourceTypeCategory, categoryID,
                               SubjectTypeUser, check.UserID) :
       LET r == checkDirectPermission(resp, check.Permission, now)
       IN  /\ errs' = (errs \/ resp.err)
           /\ IF r.Allowed
              THEN /\ Return(Inherited(r, "inherited from parent category"))
                   /\ via' = Via(resp)
                   /\ i' = i
              ELSE /\ pc' = IF roleIDs = <<>> THEN "walkTenant" ELSE "walkRole"
                   /\ i' = IF roleIDs = <<>> THEN 0 ELSE 1
                   /\ UNCHANGED <<result, via>>
  /\ UNCHANGED <<outer, roleIDs, categoryID, visited, walk>>

\* Role permissions on the category, one iteration of the loop over roleIDs.
checkHierarchy_Role ==
  /\ pc = "walkRole"
  /\ \E resp \in HasPermission(check.TenantID, ResourceTypeCategory, categoryID,
                               SubjectTypeRole, roleIDs[i]) :
       LET r == checkDirectPermission(resp, check.Permission, now)
       IN  /\ errs' = (errs \/ resp.err)
           /\ IF r.Allowed
              THEN /\ Return(Inherited(r, "inherited from parent category via role"))
                   /\ via' = Via(resp)
                   /\ i' = i
              ELSE /\ pc' = IF i < Len(roleIDs) THEN "walkRole" ELSE "walkTenant"
                   /\ i' = IF i < Len(roleIDs) THEN i + 1 ELSE 0
                   /\ UNCHANGED <<result, via>>
  /\ UNCHANGED <<outer, roleIDs, categoryID, visited, walk>>

\* Tenant permission on the category.
checkHierarchy_Tenant ==
  /\ pc = "walkTenant"
  /\ \E resp \in HasPermission(check.TenantID, ResourceTypeCategory, categoryID,
                               SubjectTypeTenant, TenantAll) :
       LET r == checkDirectPermission(resp, check.Permission, now)
       IN  /\ errs' = (errs \/ resp.err)
           /\ IF r.Allowed
              THEN /\ Return(Inherited(r, "inherited from parent category via tenant"))
                   /\ via' = Via(resp)
              ELSE /\ pc' = "walkNext"
                   /\ UNCHANGED <<result, via>>
  /\ UNCHANGED <<outer, roleIDs, i, categoryID, visited, walk>>

\* Move to the next parent; a lookup failure breaks out of the loop.
checkHierarchy_Next ==
  /\ pc = "walkNext"
  /\ \E resp \in GetCategoryParentID(check.TenantID, categoryID) :
       /\ errs' = (errs \/ resp = <<>>)
       /\ IF resp = <<>>
          THEN /\ ReturnNotFound
               /\ UNCHANGED <<categoryID, visited, walk>>
          ELSE WalkFrom(resp[1])
  /\ UNCHANGED <<outer, roleIDs, i, via>>

\* ------------------------------------------------------------------------
\* Callers of Engine.Check
\* ------------------------------------------------------------------------
\* A direct call of Engine.Check (PermissionService.CheckAccess).
Check(c) ==
  /\ NewCall("Check")
  /\ NewCheck(c)
  /\ err' = Nil
  /\ pc' = "step1"
  /\ UNCHANGED <<store, hierVars, now, revoked>>

\* Engine.Check hands its result to the caller.
Check_Return ==
  /\ op = "Check"
  /\ pc = "return"
  /\ pc' = "done"
  /\ UNCHANGED <<outer, roleIDs, i, categoryID, visited, result, errs, via, walk>>

\* Checker.CanRead .. CanDownload: one Engine.Check with the permission fixed.
CanName(permission) ==
  CASE permission = PermissionRead -> "CanRead"
    [] permission = PermissionWrite -> "CanWrite"
    [] permission = PermissionDelete -> "CanDelete"
    [] permission = PermissionShare -> "CanShare"
    [] permission = PermissionDownload -> "CanDownload"

CanNames == {CanName(p) : p \in Permissions}

\* The body of a Checker method: the CheckContext literal and the call of
\* Engine.Check.
Checker_Check(tenantID, userID, res, permission) ==
  /\ NewCheck(CheckContext(tenantID, userID, res, permission))
  /\ err' = Nil
  /\ pc' = "step1"
  /\ UNCHANGED <<store, hierVars, now, revoked>>

Can(permission, tenantID, userID, res) ==
  /\ NewCallWith(CanName(permission),
                 <<tenantID, userID, res.resourceType, res.resourceID>>)
  /\ Checker_Check(tenantID, userID, res, permission)

CanRead(tenantID, userID, res) == Can(PermissionRead, tenantID, userID, res)
CanWrite(tenantID, userID, res) == Can(PermissionWrite, tenantID, userID, res)
CanDelete(tenantID, userID, res) == Can(PermissionDelete, tenantID, userID, res)
CanShare(tenantID, userID, res) == Can(PermissionShare, tenantID, userID, res)
CanDownload(tenantID, userID, res) == Can(PermissionDownload, tenantID, userID, res)

\* The convenience methods: the generic method on a resource of a fixed type.
CanReadCategory(tenantID, userID, id) ==
  /\ NewCallWith("CanReadCategory", <<tenantID, userID, id>>)
  /\ Checker_Check(tenantID, userID, Resource(ResourceTypeCategory, id),
                   PermissionRead)

CanWriteCategory(tenantID, userID, id) ==
  /\ NewCallWith("CanWriteCategory", <<tenantID, userID, id>>)
  /\ Checker_Check(tenantID, userID, Resource(ResourceTypeCategory, id),
                   PermissionWrite)

CanDeleteCategory(tenantID, userID, id) ==
  /\ NewCallWith("CanDeleteCategory", <<tenantID, userID, id>>)
  /\ Checker_Check(tenantID, userID, Resource(ResourceTypeCategory, id),
                   PermissionDelete)

CanShareCategory(tenantID, userID, id) ==
  /\ NewCallWith("CanShareCategory", <<tenantID, userID, id>>)
  /\ Checker_Check(tenantID, userID, Resource(ResourceTypeCategory, id),
                   PermissionShare)

CanReadDocument(tenantID, userID, documentID) ==
  /\ NewCallWith("CanReadDocument", <<tenantID, userID, documentID>>)
  /\ Checker_Check(tenantID, userID, Resource(ResourceTypeDocument, documentID),
                   PermissionRead)

CanWriteDocument(tenantID, userID, documentID) ==
  /\ NewCallWith("CanWriteDocument", <<tenantID, userID, documentID>>)
  /\ Checker_Check(tenantID, userID, Resource(ResourceTypeDocument, documentID),
                   PermissionWrite)

CanDeleteDocument(tenantID, userID, documentID) ==
  /\ NewCallWith("CanDeleteDocument", <<tenantID, userID, documentID>>)
  /\ Checker_Check(tenantID, userID, Resource(ResourceTypeDocument, documentID),
                   PermissionDelete)

CanShareDocument(tenantID, userID, documentID) ==
  /\ NewCallWith("CanShareDocument", <<tenantID, userID, documentID>>)
  /\ Checker_Check(tenantID, userID, Resource(ResourceTypeDocument, documentID),
                   PermissionShare)

CanDownloadDocument(tenantID, userID, documentID) ==
  /\ NewCallWith("CanDownloadDocument", <<tenantID, userID, documentID>>)
  /\ Checker_Check(tenantID, userID, Resource(ResourceTypeDocument, documentID),
                   PermissionDownload)

ConvenienceNames ==
  {"CanReadCategory", "CanWriteCategory", "CanDeleteCategory", "CanShareCategory",
   "CanReadDocument", "CanWriteDocument", "CanDeleteDocument", "CanShareDocument",
   "CanDownloadDocument"}

\* fmt.Errorf("access denied: %s", result.Reason)
AccessDenied(reason) == "access denied: " \o reason

\* A Can method that returns nil whatever the engine answered.
Can_Return_Nil ==
  /\ op \in CanNames \cup ConvenienceNames
  /\ pc = "return"
  /\ err' = Nil
  /\ pc' = "done"
  /\ UNCHANGED <<store, hierVars, now, op, cancelled, check, gepVars, resources,
                 roleIDs, i, categoryID, visited, result, errs, via, walk, revoked,
                 callVars>>

\* The Checker turns the result into nil or a denial error.
Can_Return ==
  /\ op \in CanNames \cup ConvenienceNames
  /\ pc = "return"
  /\ err' = IF result.Allowed THEN Nil ELSE AccessDenied(result.Reason)
  /\ pc' = "done"
  /\ UNCHANGED <<store, hierVars, now, op, cancelled, check, gepVars, resources,
                 roleIDs, i, categoryID, visited, result, errs, via, walk, revoked,
                 callVars>>

\* Checker.CheckPermission, and Checker.RequirePermission which calls it.
CheckPermission(tenantID, userID, resourceType, resourceID, permission) ==
  /\ NewCallWith("CheckPermission",
                 <<tenantID, userID, resourceType, resourceID, permission>>)
  /\ Checker_Check(tenantID, userID, Resource(resourceType, resourceID), permission)

RequirePermission(tenantID, userID, resourceType, resourceID, permission) ==
  /\ NewCallWith("RequirePermission",
                 <<tenantID, userID, resourceType, resourceID, permission>>)
  /\ Checker_Check(tenantID, userID, Resource(resourceType, resourceID), permission)

\* return result.Allowed, result.Reason
CheckPermission_Return ==
  /\ op \in {"CheckPermission", "RequirePermission"}
  /\ pc = "return"
  /\ ret' = <<result.Allowed, result.Reason>>
  /\ pc' = IF op = "CheckPermission" THEN "done" ELSE "require"
  /\ UNCHANGED <<store, hierVars, now, op, cancelled, check, err, gepVars, resources,
                 roleIDs, i, categoryID, visited, result, errs, via, walk, revoked,
                 args, failed, seen>>

\* RequirePermission turns the pair into nil or a denial error.
RequirePermission_Return ==
  /\ op = "RequirePermission"
  /\ pc = "require"
  /\ err' = IF ret[1] THEN Nil ELSE AccessDenied(ret[2])
  /\ pc' = "done"
  /\ UNCHANGED <<store, hierVars, now, op, cancelled, check, gepVars, resources,
                 roleIDs, i, categoryID, visited, result, errs, via, walk, revoked,
                 callVars>>

\* ------------------------------------------------------------------------
\* Engine.Grant, Engine.Revoke
\* ------------------------------------------------------------------------
\* The error of a failed store call.
StoreError == "store error"

\* Grant: one CreatePermission; a store error is returned to the caller.
Grant(tuple) ==
  /\ NewCall("Grant")
  /\ NewCheck(NoCheck)
  /\ pc' = "done"
  /\ \/ /\ BagCardinality(store) < MaxTuples
        /\ store' = CreatePermission(tuple)
        /\ err' = Nil
     \/ /\ store' = store
        /\ err' = StoreError
  /\ revoked' = {}
  /\ UNCHANGED <<hierVars, now>>

\* Revoke with a nil relation narrowed to the Owner tuples.
Revoke_Owner(tenantID, res, relation, subj) ==
  /\ NewCall("Revoke")
  /\ NewCheck(NoCheck)
  /\ pc' = "done"
  /\ store' = DeletePermission(tenantID, res.resourceType, res.resourceID,
                                IF relation = Nil THEN RelationOwner ELSE relation,
                                subj.subjectType, subj.subjectID)
  /\ err' = Nil
  /\ revoked' = IF relation = Nil THEN BagToSet(store) \ BagToSet(store') ELSE {}
  /\ UNCHANGED <<hierVars, now>>

\* Revoke that deletes the relation on the resource for every subject.
Revoke_AnySubject(tenantID, res, relation, subj) ==
  /\ NewCall("Revoke")
  /\ NewCheck(NoCheck)
  /\ pc' = "done"
  /\ LET keep == {t \in BagToSet(store) :
                    ~(/\ t.tenantID = tenantID
                      /\ t.resourceType = res.resourceType
                      /\ t.resourceID = res.resourceID
                      /\ (relation = Nil \/ t.relation = relation))}
     IN  store' = [t \in keep |-> store[t]]
  /\ err' = Nil
  /\ revoked' = IF relation = Nil THEN BagToSet(store) \ BagToSet(store') ELSE {}
  /\ UNCHANGED <<hierVars, now>>

\* Revoke: one DeletePermission; a store error is returned to the caller.
Revoke(tenantID, res, relation, subj) ==
  /\ NewCall("Revoke")
  /\ NewCheck(NoCheck)
  /\ pc' = "done"
  /\ \/ /\ store' = DeletePermission(tenantID, res.resourceType, res.resourceID,
                                      relation, subj.subjectType, subj.subjectID)
        /\ err' = Nil
     \/ /\ store' = store
        /\ err' = StoreError
  /\ revoked' = IF relation = Nil THEN BagToSet(store) \ BagToSet(store') ELSE {}
  /\ UNCHANGED <<hierVars, now>>

\* PermissionService.RevokeAccess: the request's relation, nil when it is
\* absent or unspecified, goes to the repository's delete with the tenant of
\* the request context; a store error is returned to the caller.
RevokeAccess(tenantID, resourceType, resourceID, relation, subjectType, subjectID) ==
  /\ NewCallWith("RevokeAccess",
                 <<tenantID, resourceType, resourceID, relation, subjectType, subjectID>>)
  /\ NewCheck(NoCheck)
  /\ pc' = "done"
  /\ \/ /\ store' = DeletePermission(tenantID, resourceType, resourceID,
                                      IF relation \in {Nil, RelationUnspecified}
                                      THEN Nil ELSE relation,
                                      subjectType, subjectID)
        /\ err' = Nil
     \/ /\ store' = store
        /\ err' = StoreError
  /\ revoked' = {}
  /\ UNCHANGED <<hierVars, now>>

\* ------------------------------------------------------------------------
\* DocumentService and CategoryService: the deleting handlers
\* ------------------------------------------------------------------------
\* The error of a failed repository call.
RepositoryError == "repository error"

\* The ids in a slice.
IDsOf(ids) == {ids[j] : j \in 1 .. Len(ids)}

\* permRepo.DeleteByResource for each of the given ids: every tuple of the
\* tenant on a resource of the type with one of the ids is removed.
DeleteByResource(tenantID, resourceType, ids) ==
  LET keep == {t \in BagToSet(store) :
                 ~(/\ t.tenantID = tenantID
                   /\ t.resourceType = resourceType
                   /\ t.resourceID \in ids)}
  IN  [t \in keep |-> store[t]]

\* What the steps of a handler outside the Checker leave alone.
engineVars ==
  <<lookupVars, now, cancelled, check, roleIDs, i, categoryID, visited, result,
    gepVars, resources, err, errs, via, walk, revoked, callVars>>

\* A handler is entered: tenant and user come from the request context.
Handler(name, ids, flag) ==
  /\ Idle
  /\ svc = NoService
  /\ svc' = Service(name, ids, flag)
  /\ allowedIDs' = <<>>
  /\ checks' = <<>>
  /\ handed' = {}
  /\ deleted' = {}
  /\ response' = NoResponse
  /\ op' = name
  /\ pc' = "idle"
  /\ UNCHANGED <<store, documents, categories, engineVars, proc, status, written>>

\* The handler returns.
Handler_Return(r) ==
  /\ response' = r
  /\ svc' = NoService
  /\ op' = svc.name
  /\ pc' = "done"

\* ---- DocumentService.DeleteDocument ----
DeleteDocument(id, permanent) == Handler("DeleteDocument", <<id>>, permanent)

\* s.checker.CanDeleteDocument(ctx, tenantID, userID, req.Id)
DeleteDocument_Check ==
  /\ svc.name = "DeleteDocument"
  /\ pc = "idle"
  /\ CanDeleteDocument(TenantID, UserID, svc.ids[1])

\* The handler after the check: the document is read and deleted, its file
\* is removed from storage (storage is not modelled; its error is only
\* logged), and the permissions of the document are deleted, the error of
\* that call being discarded.
DeleteDocument_Run ==
  /\ svc.name = "DeleteDocument"
  /\ op = "CanDeleteDocument"
  /\ pc = "done"
  /\ checks' = Append(checks, [id |-> svc.ids[1], allowed |-> result.Allowed])
  /\ IF err # Nil
     THEN /\ Handler_Return(Response("no delete access to document", 0, <<>>))
          /\ UNCHANGED <<store, documents, handed, deleted>>
     ELSE \/ /\ Handler_Return(Response(RepositoryError, 0, <<>>))
             /\ UNCHANGED <<store, documents, handed, deleted>>
          \/ /\ svc.ids[1] \notin documents
             /\ Handler_Return(Response("document not found", 0, <<>>))
             /\ UNCHANGED <<store, documents, handed, deleted>>
          \/ /\ svc.ids[1] \in documents
             /\ handed' = {svc.ids[1]}
             /\ \/ /\ Handler_Return(Response(RepositoryError, 0, <<>>))
                   /\ UNCHANGED <<store, documents, deleted>>
                \/ /\ documents' = documents \ {svc.ids[1]}
                   /\ deleted' = {Resource(ResourceTypeDocument, svc.ids[1])}
                   /\ \E ok \in SUBSET {svc.ids[1]} :
                        store' = DeleteByResource(TenantID, ResourceTypeDocument, ok)
                   /\ Handler_Return(NoResponse)
  /\ UNCHANGED <<categories, allowedIDs, engineVars, proc, status, written>>

\* ---- CategoryService.DeleteCategory ----
DeleteCategory(id, force) == Handler("DeleteCategory", <<id>>, force)

\* s.checker.CanDeleteCategory(ctx, tenantID, userID, req.Id)
DeleteCategory_Check ==
  /\ svc.name = "DeleteCategory"
  /\ pc = "idle"
  /\ CanDeleteCategory(TenantID, UserID, svc.ids[1])

\* The handler after the check: the category is deleted and its permissions
\* are deleted, the error of that call being only logged.
DeleteCategory_Run ==
  /\ svc.name = "DeleteCategory"
  /\ op = "CanDeleteCategory"
  /\ pc = "done"
  /\ checks' = Append(checks, [id |-> svc.ids[1], allowed |-> result.Allowed])
  /\ IF err # Nil
     THEN /\ Handler_Return(Response("no delete access to category", 0, <<>>))
          /\ UNCHANGED <<store, categories, handed, deleted>>
     ELSE /\ handed' = {svc.ids[1]}
          /\ \/ /\ Handler_Return(Response(RepositoryError, 0, <<>>))
                /\ UNCHANGED <<store, categories, deleted>>
             \/ /\ svc.ids[1] \in categories
                /\ categories' = categories \ {svc.ids[1]}
                /\ deleted' = {Resource(ResourceTypeCategory, svc.ids[1])}
                /\ \E ok \in SUBSET {svc.ids[1]} :
                     store' = DeleteByResource(TenantID, ResourceTypeCategory, ok)
                /\ Handler_Return(NoResponse)
  /\ UNCHANGED <<documents, allowedIDs, engineVars, proc, status, written>>

\* ---- DocumentService.BatchDeleteDocuments ----
BatchDeleteDocuments(ids, permanent) == Handler("BatchDeleteDocuments", ids, permanent)

\* The check of the next id of the request.
BatchDeleteDocuments_Check ==
  /\ svc.name = "BatchDeleteDocuments"
  /\ pc = "idle"
  /\ svc.n < Len(svc.ids)
  /\ CanDeleteDocument(TenantID, UserID, svc.ids[svc.n + 1])

\* A loop body that keeps the id whatever the check answered.
BatchDeleteDocuments_Checked_All ==
  /\ svc.name = "BatchDeleteDocuments"
  /\ op = "CanDeleteDocument"
  /\ pc = "done"
  /\ checks' = Append(checks, [id |-> svc.ids[svc.n + 1], allowed |-> result.Allowed])
  /\ allowedIDs' = Append(allowedIDs, svc.ids[svc.n + 1])
  /\ svc' = [svc EXCEPT !.n = @ + 1]
  /\ pc' = "idle"
  /\ UNCHANGED <<store, documents, categories, handed, deleted, response, op, engineVars, proc, status, written>>

\* The rest of the loop body: a denied id is skipped, an allowed one is
\* appended to allowedIDs.
BatchDeleteDocuments_Checked ==
  /\ svc.name = "BatchDeleteDocuments"
  /\ op = "CanDeleteDocument"
  /\ pc = "done"
  /\ checks' = Append(checks, [id |-> svc.ids[svc.n + 1], allowed |-> result.Allowed])
  /\ allowedIDs' = IF err # Nil THEN allowedIDs
                   ELSE Append(allowedIDs, svc.ids[svc.n + 1])
  /\ svc' = [svc EXCEPT !.n = @ + 1]
  /\ pc' = "idle"
  /\ UNCHANGED <<store, documents, categories, handed, deleted, response, op, engineVars, proc, status, written>>

\* The handler after the loop: nothing is deleted when no id was allowed;
\* otherwise the repository deletes the allowed ids and reports those it
\* could not delete (a missing document among them), the ids that were not
\* allowed are added to the failed ones, and the permissions of every
\* allowed id that is not among the failed ones are deleted, the error of
\* each such call being discarded.
BatchDeleteDocuments_Run ==
  /\ svc.name = "BatchDeleteDocuments"
  /\ pc = "idle"
  /\ svc.n = Len(svc.ids)
  /\ IF allowedIDs = <<>>
     THEN /\ Handler_Return(Response(Nil, 0, svc.ids))
          /\ UNCHANGED <<store, documents, handed, deleted>>
     ELSE /\ handed' = IDsOf(allowedIDs)
          /\ \/ /\ Handler_Return(Response(RepositoryError, 0, <<>>))
                /\ UNCHANGED <<store, documents, deleted>>
             \/ \E repoFailed \in SUBSET IDsOf(allowedIDs) :
                  /\ IDsOf(allowedIDs) \ documents \subseteq repoFailed
                  /\ LET RepoFailed(id) == id \in repoFailed
                         NotAllowed(id) == id \notin IDsOf(allowedIDs)
                         failedIDs == SelectSeq(allowedIDs, RepoFailed)
                                        \o SelectSeq(svc.ids, NotAllowed)
                         gone == IDsOf(allowedIDs) \ repoFailed
                         clear == IDsOf(allowedIDs) \ IDsOf(failedIDs)
                     IN  /\ documents' = documents \ gone
                         /\ deleted' = {Resource(ResourceTypeDocument, id) : id \in gone}
                         /\ \E ok \in SUBSET clear :
                              store' = DeleteByResource(TenantID, ResourceTypeDocument, ok)
                         /\ Handler_Return(Response(Nil, Cardinality(gone), failedIDs))
  /\ UNCHANGED <<categories, allowedIDs, checks, engineVars, proc, status, written>>

\* ------------------------------------------------------------------------
\* DocumentProcessor.ProcessDocument
\* ------------------------------------------------------------------------
\* What ProcessDocument leaves alone.
processFrame ==
  <<store, op, pc, engineVars, documents, categories, svc, allowedIDs, checks, handed,
    deleted, response>>

\* The goroutine started by an upload.
ProcessDocument(documentID, mimeType) ==
  /\ proc.pc \in {"idle", "returned"}
  /\ proc' = Process("start", documentID, mimeType)
  /\ written' = <<>>
  /\ UNCHANGED <<status, processFrame>>

\* documentRepo.UpdateProcessingResult: the status is stored, or the call
\* fails and stores nothing.
UpdateProcessingResult(st, next) ==
  \/ /\ status' = [status EXCEPT ![proc.documentID] = st]
     /\ written' = Append(written, st)
     /\ proc' = [proc EXCEPT !.pc = next]
  \/ /\ proc' = [proc EXCEPT !.pc = "returned"]
     /\ UNCHANGED <<status, written>>

\* The status is set to PROCESSING; on an error the call returns.  The
\* switch on the MIME type follows.
ProcessDocument_Start ==
  /\ proc.pc = "start"
  /\ UpdateProcessingResult(statusProcessing,
       CASE proc.mimeType = mimeTypePDF -> "extract"
         [] proc.mimeType \in {mimeTypeDOC, mimeTypeDOCX} -> "convert"
         [] OTHER -> "skip")
  /\ UNCHANGED processFrame

\* DOC and DOCX: gotenberg.ConvertToPDF succeeds or fails.
ProcessDocument_Convert ==
  /\ proc.pc = "convert"
  /\ \/ proc' = [proc EXCEPT !.pc = "extract"]
     \/ proc' = [proc EXCEPT !.pc = "fail", !.conversionFailed = TRUE]
  /\ UNCHANGED <<status, written, processFrame>>

\* tika.ExtractText succeeds or fails.
ProcessDocument_ExtractText ==
  /\ proc.pc = "extract"
  /\ \/ proc' = [proc EXCEPT !.pc = "metadata"]
     \/ proc' = [proc EXCEPT !.pc = "fail", !.extractionFailed = TRUE]
  /\ UNCHANGED <<status, written, processFrame>>

\* tika.ExtractMetadata: a failure is logged and the metadata stays nil.
ProcessDocument_ExtractMetadata ==
  /\ proc.pc = "metadata"
  /\ \E metadataFailed \in BOOLEAN :
       proc' = [proc EXCEPT !.pc = "complete", !.metadataFailed = metadataFailed]
  /\ UNCHANGED <<status, written, processFrame>>

\* The three final writes; an error of the write is logged and the call
\* returns.
ProcessDocument_Failed ==
  /\ proc.pc = "fail"
  /\ UpdateProcessingResult(statusFailed, "returned")
  /\ UNCHANGED processFrame

ProcessDocument_Skipped ==
  /\ proc.pc = "skip"
  /\ UpdateProcessingResult(statusSkipped, "returned")
  /\ UNCHANGED processFrame

ProcessDocument_Completed ==
  /\ proc.pc = "complete"
  /\ UpdateProcessingResult(statusCompleted, "returned")
  /\ UNCHANGED processFrame

\* Grant and Revoke called by another goroutine while a Check is running:
\* the one store write of the call happens between two port calls of the
\* Check, and what the call returns goes to its own caller.
Grant_Concurrent(tuple) ==
  /\ op = "Check"
  /\ ~Idle
  /\ BagCardinality(store) < MaxTuples
  /\ store' = CreatePermission(tuple)
  /\ seen' = seen \cup {store, store'}
  /\ UNCHANGED <<hierVars, now, op, pc, cancelled, check, err, gepVars, resources, revoked,
                 args, ret, failed, roleIDs, i, categoryID, visited, result, errs, via,
                 walk>>

Revoke_Concurrent(tenantID, res, relation, subj) ==
  /\ op = "Check"
  /\ ~Idle
  /\ store' = DeletePermission(tenantID, res.resourceType, res.resourceID,
                                relation, subj.subjectType, subj.subjectID)
  /\ store' # store
  /\ seen' = seen \cup {store, store'}
  /\ UNCHANGED <<hierVars, now, op, pc, cancelled, check, err, gepVars, resources, revoked,
                 args, ret, failed, roleIDs, i, categoryID, visited, result, errs, via,
                 walk>>

\* ------------------------------------------------------------------------
\* Engine.ListPermissions
\* ------------------------------------------------------------------------
ListPermissions(tenantID, resourceType, resourceID) ==
  /\ NewCall("ListPermissions")
  /\ NewCheck(CheckContext(tenantID, "", Resource(resourceType, resourceID), ""))
  /\ err' = Nil
  /\ pc' = "listPermissions"
  /\ UNCHANGED <<store, hierVars, now, revoked>>

\* ListPermissions that leaves out the expired tuples.
ListPermissions_Run_Unexpired ==
  /\ op = "ListPermissions"
  /\ pc = "listPermissions"
  /\ pc' = "done"
  /\ \/ /\ ~cancelled
        /\ LET direct == GetDirectPermissions(check.TenantID, check.ResourceType,
                                              check.ResourceID)
               live == {t \in BagToSet(direct) : ~Expired(t, now)}
           IN  resources' = [t \in live |-> direct[t]]
        /\ err' = Nil
        /\ UNCHANGED errs
     \/ /\ cancelled \/ MayFail
        /\ resources' = <<>>
        /\ err' = StoreError
        /\ errs' = TRUE
  /\ UNCHANGED <<store, hierVars, now, op, cancelled, check, gepVars, revoked, callVars,
                 roleIDs, i, categoryID, visited, result, via, walk>>

\* The one GetDirectPermissions call: its tuples or its error are returned.
ListPermissions_Run ==
  /\ op = "ListPermissions"
  /\ pc = "listPermissions"
  /\ pc' = "done"
  /\ \/ /\ ~cancelled
        /\ resources' = GetDirectPermissions(check.TenantID, check.ResourceType,
                                              check.ResourceID)
        /\ err' = Nil
        /\ UNCHANGED errs
     \/ /\ cancelled \/ MayFail
        /\ resources' = <<>>
        /\ err' = StoreError
        /\ errs' = TRUE
  /\ UNCHANGED <<store, hierVars, now, op, cancelled, check, gepVars, revoked, callVars,
                 roleIDs, i, categoryID, visited, result, via, walk>>

\* ------------------------------------------------------------------------
\* Engine.ListAccessibleResources
\* ------------------------------------------------------------------------
\* ListResourcesBySubject: <<ids>> or an error (<<>>).  ids is a bag: one
\* resource id per tuple the subject holds on a resource of the type.
ListResourcesBySubject(tenantID, subjectType, subjectID, resourceType) ==
  LET m == {t \in BagToSet(store) :
              /\ t.tenantID = tenantID
              /\ t.subjectType = subjectType /\ t.subjectID = subjectID
              /\ t.resourceType = resourceType}
      ids == [id \in {t.resourceID : t \in m} |->
                BagCardinality([t \in {u \in m : u.resourceID = id} |-> store[t]])]
  IN  IF cancelled THEN {<<>>}
      ELSE (IF MayFail THEN {<<>>} ELSE {}) \cup {<<ids>>}

\* The orderings of a set: a Go map is ranged over in any order.
SeqsOf(S) ==
  {q \in [1 .. Cardinality(S) -> S] :
     \A a, b \in 1 .. Cardinality(S) : a # b => q[a] # q[b]}

\* The slice built with no map in between: every listed id, as often as listed.
Collect_NoDedup(lists) ==
  LET RECURSIVE SumBags(_)
      SumBags(ls) == IF ls = <<>> THEN EmptyBag ELSE Head(ls) (+) SumBags(Tail(ls))
      RECURSIVE BagSeq(_)
      BagSeq(b) ==
        IF BagToSet(b) = {} THEN <<>>
        ELSE LET x == CHOOSE x \in BagToSet(b) : TRUE
             IN  <<x>> \o BagSeq(b (-) SetToBag({x}))
  IN  {BagSeq(SumBags(lists))}

\* accessibleIDs[id] = true for every id of every list, then the map's
\* keys as a slice.
Collect(lists) ==
  SeqsOf(UNION {BagToSet(lists[j]) : j \in 1 .. Len(lists)})

ListAccessibleResources(tenantID, userID, resourceType, permission) ==
  /\ NewCall("ListAccessibleResources")
  /\ NewCheck(CheckContext(tenantID, userID, Resource(resourceType, ""), permission))
  /\ err' = Nil
  /\ pc' = "list"
  /\ UNCHANGED <<store, hierVars, now, revoked>>

\* Checker.ListAccessibleCategories, Checker.ListAccessibleDocuments
ListAccessibleCategories(tenantID, userID) ==
  ListAccessibleResources(tenantID, userID, ResourceTypeCategory, PermissionRead)
ListAccessibleDocuments(tenantID, userID) ==
  ListAccessibleResources(tenantID, userID, ResourceTypeDocument, PermissionRead)

\* The listed ids narrowed to the resources on which a tuple grants the
\* requested permission.
Granting_Only(ids) ==
  LET keep == {id \in BagToSet(ids) :
                 \E t \in BagToSet(store) :
                   /\ t.tenantID = check.TenantID
                   /\ t.resourceType = check.ResourceType /\ t.resourceID = id
                   /\ RelationGrantsPermission(t.relation, check.Permission)}
  IN  [id \in keep |-> ids[id]]

\* The body of ListAccessibleResources with the lists narrowed to the
\* requested permission.
ListAccessibleResources_Run_Granting ==
  /\ op = "ListAccessibleResources"
  /\ pc = "list"
  /\ pc' = "done"
  /\ \E userResp \in ListResourcesBySubject(check.TenantID, SubjectTypeUser, check.UserID,
                                            check.ResourceType) :
       IF userResp = <<>>
       THEN /\ resources' = <<>>
            /\ err' = StoreError
            /\ errs' = TRUE
            /\ failed' = {SubjectTypeUser}
            /\ UNCHANGED roleIDs
       ELSE \E rolesResp \in GetUserRoleIDs(check.TenantID, check.UserID) :
              LET ids == IF rolesResp = <<>> THEN <<>> ELSE rolesResp[1]
                  RoleResp(j) == ListResourcesBySubject(check.TenantID, SubjectTypeRole,
                                                        ids[j], check.ResourceType)
              IN  \E roleResps \in [1 .. Len(ids) -> UNION {RoleResp(j) : j \in 1 .. Len(ids)}] :
                  \E tenantResp \in ListResourcesBySubject(check.TenantID, SubjectTypeTenant,
                                                           TenantAll, check.ResourceType) :
                    LET ok == SelectSeq(roleResps \o <<tenantResp>>, LAMBDA r : r # <<>>)
                        lists == <<userResp[1]>> \o [j \in 1 .. Len(ok) |-> ok[j][1]]
                    IN  /\ \A j \in 1 .. Len(ids) : roleResps[j] \in RoleResp(j)
                        /\ resources' \in Collect([j \in 1 .. Len(lists) |-> Granting_Only(lists[j])])
                        /\ err' = Nil
                        /\ errs' = (rolesResp = <<>> \/ Len(ok) < Len(ids) + 1)
                        /\ failed' = (IF \E j \in 1 .. Len(ids) : roleResps[j] = <<>>
                                      THEN {SubjectTypeRole} ELSE {})
                                       \cup (IF tenantResp = <<>>
                                             THEN {SubjectTypeTenant} ELSE {})
                        /\ roleIDs' = ids
  /\ UNCHANGED <<store, hierVars, now, op, cancelled, check, gepVars, revoked, args, ret, seen,
                 i, categoryID, visited, result, via, walk>>

\* The body of ListAccessibleResources: the user's list (an error is
\* returned), the lists of the roles (a failed one is skipped), the tenant's
\* list (dropped when it fails).
ListAccessibleResources_Run ==
  /\ op = "ListAccessibleResources"
  /\ pc = "list"
  /\ pc' = "done"
  /\ \E userResp \in ListResourcesBySubject(check.TenantID, SubjectTypeUser, check.UserID,
                                            check.ResourceType) :
       IF userResp = <<>>
       THEN /\ resources' = <<>>
            /\ err' = StoreError
            /\ errs' = TRUE
            /\ failed' = {SubjectTypeUser}
            /\ UNCHANGED roleIDs
       ELSE \E rolesResp \in GetUserRoleIDs(check.TenantID, check.UserID) :
              LET ids == IF rolesResp = <<>> THEN <<>> ELSE rolesResp[1]
                  RoleResp(j) == ListResourcesBySubject(check.TenantID, SubjectTypeRole,
                                                        ids[j], check.ResourceType)
              IN  \E roleResps \in [1 .. Len(ids) -> UNION {RoleResp(j) : j \in 1 .. Len(ids)}] :
                  \E tenantResp \in ListResourcesBySubject(check.TenantID, SubjectTypeTenant,
                                                           TenantAll, check.ResourceType) :
                    LET ok == SelectSeq(roleResps \o <<tenantResp>>, LAMBDA r : r # <<>>)
                        lists == <<userResp[1]>> \o [j \in 1 .. Len(ok) |-> ok[j][1]]
                    IN  /\ \A j \in 1 .. Len(ids) : roleResps[j] \in RoleResp(j)
                        /\ resources' \in Collect(lists)
                        /\ err' = Nil
                        /\ errs' = (rolesResp = <<>> \/ Len(ok) < Len(ids) + 1)
                        /\ failed' = (IF \E j \in 1 .. Len(ids) : roleResps[j] = <<>>
                                      THEN {SubjectTypeRole} ELSE {})
                                       \cup (IF tenantResp = <<>>
                                             THEN {SubjectTypeTenant} ELSE {})
                        /\ roleIDs' = ids
  /\ UNCHANGED <<store, hierVars, now, op, cancelled, check, gepVars, revoked, args, ret, seen,
                 i, categoryID, visited, result, via, walk>>

\* ------------------------------------------------------------------------
\* Engine.GetEffectivePermissions
\* ------------------------------------------------------------------------
\* The running highest relation keeps the first relation reported.
highestRelationAfter_First(r, highest) ==
  IF r.Relation # Nil /\ highest = RelationUnspecified THEN r.Relation ELSE highest

\* The running highest relation after an allowing result r.
highestRelationAfter(r, highest) ==
  IF r.Relation # Nil /\ IsRelationAtLeast(r.Relation, highest) THEN r.Relation
  ELSE highest

\* The call: highestRelation is the zero Relation, permissions is empty.
GetEffectivePermissions(c) ==
  /\ NewCall("GetEffectivePermissions")
  /\ NewCheck(c)
  /\ err' = Nil
  /\ pc' = "loop"
  /\ UNCHANGED <<store, hierVars, now, revoked>>

\* Checker.GetEffectivePermissions
Checker_GetEffectivePermissions(tenantID, userID, resourceType, resourceID) ==
  GetEffectivePermissions(CheckContext(tenantID, userID,
                                       Resource(resourceType, resourceID), ""))

\* The head of the loop over the five permissions: the next Check is
\* started, or the permissions are returned.
GetEffectivePermissions_Loop ==
  /\ op = "GetEffectivePermissions"
  /\ pc = "loop"
  /\ IF k < Len(PermissionOrder)
     THEN /\ k' = k + 1
          /\ NewCheck([check EXCEPT !.Permission = PermissionOrder[k + 1]])
          /\ pc' = "step1"
     ELSE /\ pc' = "done"
          /\ UNCHANGED <<k, check, roleIDs, i, categoryID, visited, result, errs, via, walk>>
  /\ UNCHANGED <<store, hierVars, now, op, cancelled, err, permissions, highestRelation,
                 log, resources, revoked, callVars>>

\* The body of the loop after Check returned.
GetEffectivePermissions_Result ==
  /\ op = "GetEffectivePermissions"
  /\ pc = "return"
  /\ log' = Append(log, result)
  /\ IF result.Allowed
     THEN /\ permissions' = permissions \cup {check.Permission}
          /\ highestRelation' = highestRelationAfter(result, highestRelation)
     ELSE UNCHANGED <<permissions, highestRelation>>
  /\ pc' = "loop"
  /\ UNCHANGED <<store, hierVars, now, op, cancelled, check, err, k, resources, revoked, callVars,
                 roleIDs, i, categoryID, visited, result, errs, via, walk>>

\* ------------------------------------------------------------------------
\* Environment
\* ------------------------------------------------------------------------
\* The context of the call in flight is cancelled or its deadline passes.
Cancel ==
  /\ ~Idle
  /\ ~cancelled
  /\ cancelled' = TRUE
  /\ UNCHANGED <<store, hierVars, now, op, pc, check, roleIDs, i, categoryID, visited,
                 result, gepVars, resources, err, errs, via, walk, revoked, callVars>>

\* The clock advances between two calls.
Tick ==
  /\ Idle
  /\ now < MaxTime
  /\ now' = now + 1
  /\ UNCHANGED <<store, hierVars, op, pc, cancelled, check, roleIDs, i, categoryID,
                 visited, result, gepVars, resources, err, errs, via, walk, revoked, callVars>>

\* ------------------------------------------------------------------------
\* Specifications: one caller at a time
\* ------------------------------------------------------------------------
NilOr(S) == S \cup {Nil}

\* The hierarchy of the second tenant: flat, or the first tenant's chain
\* turned upside down (d1 in c1, c1 in c2).
OtherParentMaps ==
  {[c \in Categories |-> Nil], [c \in Categories |-> IF c = "c1" THEN "c2" ELSE Nil]}
OtherDocMaps == {[d \in Documents |-> "c1"]}

\* The initial states: an empty store, the clock at 0, no call made, the
\* hierarchies of the two tenants drawn from the given maps and ports
\* failing at the positions of one of the given sets.
InitStores(stores, parentMaps, docMaps, otherParentMaps, otherDocMaps, faultSets) ==
  /\ store \in stores
  /\ parent \in parentMaps
  /\ docCat \in docMaps
  /\ parentOther \in otherParentMaps
  /\ docCatOther \in otherDocMaps
  /\ userRoles \in RoleLists
  /\ faults \in faultSets
  /\ now = 0
  /\ op = "none"
  /\ pc = "idle"
  /\ cancelled = FALSE
  /\ check = NoCheck
  /\ roleIDs = <<>>
  /\ i = 0
  /\ categoryID = Nil
  /\ visited = {}
  /\ result = NoResult
  /\ k = 0
  /\ permissions = {}
  /\ highestRelation = RelationUnspecified
  /\ resources = <<>>
  /\ err = Nil
  /\ errs = FALSE
  /\ via = <<>>
  /\ walk = <<>>
  /\ log = <<>>
  /\ revoked = {}
  /\ args = <<>>
  /\ ret = <<>>
  /\ failed = {}
  /\ seen = {}
  /\ documents = DOMAIN docCat
  /\ categories = DOMAIN parent
  /\ svc = NoService
  /\ allowedIDs = <<>>
  /\ checks = <<>>
  /\ handed = {}
  /\ deleted = {}
  /\ response = NoResponse
  /\ proc = NoProcess
  /\ status = [d \in DOMAIN docCat |-> statusPending]
  /\ written = <<>>

\* The initial states with an empty store.
InitTenants(parentMaps, docMaps, otherParentMaps, otherDocMaps, faultSets) ==
  InitStores({EmptyBag}, parentMaps, docMaps, otherParentMaps, otherDocMaps, faultSets)

\* The initial states with nothing but flat categories under the second tenant.
InitWith(parentMaps, docMaps, faultSets) ==
  InitTenants(parentMaps, docMaps, {[c \in Categories |-> Nil]},
              {[d \in Documents |-> Nil]}, faultSets)

\* Every parent map over the categories: forests, self-loops and cycles.
ParentMaps == [Categories -> NilOr(Categories)]

\* The document has no category or is in "c2"; the case of "c1" is the same
\* up to renaming the two categories.
DocMaps == [Documents -> NilOr({"c2"})]

\* The resources calls are made on: the document and, up to renaming, "c2".
Targets == {Resource(ResourceTypeDocument, "d1"), Resource(ResourceTypeCategory, "c2")}

\* The tuples of the tenant with the given subjects, resources, relations
\* and expiry times.
Tuples(subjects, ress, relations, expiryTimes) ==
  {PermissionTuple(TenantID, res, relation, subj, expiresAt) :
     res \in ress, relation \in relations, subj \in subjects,
     expiresAt \in expiryTimes}

\* Grant calls for the given tuples and Revoke calls for their relation.
Mutate(tuples) ==
  \/ \E tuple \in tuples : Grant(tuple)
  \/ \E tuple \in tuples :
       Revoke(tuple.tenantID, Resource(tuple.resourceType, tuple.resourceID),
              tuple.relation, Subject(tuple.subjectType, tuple.subjectID))

\* Revoke calls with a nil relation for the subjects and resources of the
\* given tuples.
RevokeAll(tuples) ==
  \E tuple \in tuples :
    Revoke(tuple.tenantID, Resource(tuple.resourceType, tuple.resourceID), Nil,
           Subject(tuple.subjectType, tuple.subjectID))

\* The positions of Engine.Check at which a port is called.
Sites ==
  {"step1", "step2", "step2role", "step3", "step4",
   "walkUser", "walkRole", "walkTenant", "walkNext"}

\* The steps of a running Engine.Check.
CheckStep ==
  \/ Check_Step1
  \/ Check_GetUserRoleIDs
  \/ Check_Step2Role
  \/ Check_Step3
  \/ checkHierarchy_Start
  \/ checkHierarchy_User
  \/ checkHierarchy_Role
  \/ checkHierarchy_Tenant
  \/ checkHierarchy_Next

\* Spec: Engine.Check over every hierarchy, every port call possibly
\* failing.  The tuples are Editor tuples expiring at 0, for the user, the
\* role returned last, and the tenant wildcard: whether one grants depends on
\* the requested permission, whether it is expired on the clock.
GrantTuples ==
  Tuples({Subject(SubjectTypeUser, UserID), Subject(SubjectTypeRole, RoleA),
          Subject(SubjectTypeTenant, TenantAll)},
         Resources, {RelationEditor}, {0})
CheckPermissions == {PermissionRead, PermissionDelete}

Init == InitWith(ParentMaps, DocMaps, {Sites})

Next ==
  \/ Mutate(GrantTuples)
  \/ \E res \in Targets, permission \in CheckPermissions :
       Check(CheckContext(TenantID, UserID, res, permission))
  \/ CheckStep
  \/ Check_Return
  \/ Tick

Spec == Init /\ [][Next]_vars

\* SpecCycle: Engine.Check over every hierarchy, every port call possibly
\* failing, the steps of a started Check always taken in the end: every port
\* call returns and the goroutine running the call is scheduled.  The user
\* and a role can hold Editor tuples on the categories.
CycleTuples ==
  Tuples({Subject(SubjectTypeUser, UserID), Subject(SubjectTypeRole, RoleA)},
         {Resource(ResourceTypeCategory, c) : c \in Categories},
         {RelationEditor}, {NoExpiry})

NextCycle ==
  \/ Mutate(CycleTuples)
  \/ \E res \in Targets, permission \in CheckPermissions :
       Check(CheckContext(TenantID, UserID, res, permission))
  \/ CheckStep
  \/ Check_Return

SpecCycle == Init /\ [][NextCycle]_vars /\ WF_vars(CheckStep \/ Check_Return)

\* SpecChain: Engine.Check of the document at the bottom of the chain
\* d1 in c2, c2 in c1, with healthy ports.  Every subject can hold Viewer
\* and Owner tuples on every resource.
ChainParent == [c \in Categories |-> IF c = "c2" THEN "c1" ELSE Nil]
ChainDocCat == [d \in Documents |-> "c2"]

ChainTuples == Tuples(Subjects, Resources, {RelationViewer, RelationOwner}, {NoExpiry})

InitChain == InitWith({ChainParent}, {ChainDocCat}, {{}})

NextChain ==
  \/ Mutate(ChainTuples)
  \/ \E permission \in CheckPermissions :
       Check(CheckContext(TenantID, UserID, Resource(ResourceTypeDocument, "d1"),
                          permission))
  \/ CheckStep
  \/ Check_Return

SpecChain == InitChain /\ [][NextChain]_vars

\* SpecExpiry: the same Check on the same chain while the clock advances.
\* Every subject can hold an Owner tuple, the user also a Viewer tuple, on
\* every resource; each of them expires at 0.
ExpiryTuples ==
  Tuples(Subjects, Resources, {RelationOwner}, {0})
    \cup Tuples({Subject(SubjectTypeUser, UserID)}, Resources, {RelationViewer}, {0})

NextExpiry ==
  \/ Mutate(ExpiryTuples)
  \/ \E permission \in CheckPermissions :
       Check(CheckContext(TenantID, UserID, Resource(ResourceTypeDocument, "d1"),
                          permission))
  \/ CheckStep
  \/ Check_Return
  \/ Tick

SpecExpiry == InitChain /\ [][NextExpiry]_vars

\* SpecDirect: the Checker's five checks of the document d1 in c2, with
\* healthy ports.  The user can hold Owner, Sharer and Viewer tuples on the
\* document, the tenant an Editor tuple on the category.
DirectParent == [c \in Categories |-> Nil]

DirectTuples ==
  Tuples({Subject(SubjectTypeUser, UserID)}, {Resource(ResourceTypeDocument, "d1")},
         {RelationOwner, RelationSharer, RelationViewer}, {NoExpiry})
    \cup Tuples({Subject(SubjectTypeTenant, TenantAll)},
                {Resource(ResourceTypeCategory, "c2")}, {RelationEditor}, {NoExpiry})

InitDirect == InitWith({DirectParent}, {ChainDocCat}, {{}})

NextDirect ==
  \/ Mutate(DirectTuples)
  \/ RevokeAll(DirectTuples)
  \/ CanRead(TenantID, UserID, Resource(ResourceTypeDocument, "d1"))
  \/ CanWrite(TenantID, UserID, Resource(ResourceTypeDocument, "d1"))
  \/ CanDelete(TenantID, UserID, Resource(ResourceTypeDocument, "d1"))
  \/ CanShare(TenantID, UserID, Resource(ResourceTypeDocument, "d1"))
  \/ CanDownload(TenantID, UserID, Resource(ResourceTypeDocument, "d1"))
  \/ CheckStep
  \/ Can_Return

SpecDirect == InitDirect /\ [][NextDirect]_vars

\* SpecCancel: a Check of the document at the bottom of the chain whose
\* context can be cancelled at any point before it returns.
CancelTuples ==
  Tuples({Subject(SubjectTypeUser, UserID)},
         {Resource(ResourceTypeDocument, "d1"), Resource(ResourceTypeCategory, "c1")},
         {RelationOwner}, {NoExpiry})

NextCancel ==
  \/ Mutate(CancelTuples)
  \/ Check(CheckContext(TenantID, UserID, Resource(ResourceTypeDocument, "d1"),
                        PermissionRead))
  \/ CheckStep
  \/ Check_Return
  \/ Cancel

SpecCancel == InitChain /\ [][NextCancel]_vars

\* SpecList: the Checker's two listings, with ports that are healthy or
\* may fail.  Every subject, and a second user, can hold Viewer tuples.
OtherUserID == "u2"

ListTuples ==
  Tuples(Subjects, Resources, {RelationViewer}, {NoExpiry})
    \cup Tuples({Subject(SubjectTypeUser, OtherUserID)},
                {Resource(ResourceTypeCategory, "c1")}, {RelationViewer}, {NoExpiry})

InitList == InitWith({ChainParent}, {ChainDocCat}, {{}, {"list", "listPermissions"}})

NextList ==
  \/ Mutate(ListTuples)
  \/ ListAccessibleCategories(TenantID, UserID)
  \/ ListAccessibleDocuments(TenantID, UserID)
  \/ ListAccessibleResources_Run
  \/ ListPermissions(TenantID, ResourceTypeCategory, "c1")
  \/ ListPermissions_Run

SpecList == InitList /\ [][NextList]_vars

\* SpecGEP: the effective permissions of the user on the document d1 in c2,
\* with healthy ports.
GEPTuples ==
  Tuples({Subject(SubjectTypeUser, UserID)}, {Resource(ResourceTypeDocument, "d1")},
         {RelationViewer, RelationEditor}, {NoExpiry})
    \cup Tuples({Subject(SubjectTypeTenant, TenantAll)},
                {Resource(ResourceTypeDocument, "d1")}, {RelationOwner}, {NoExpiry})
    \cup Tuples({Subject(SubjectTypeRole, RoleA)},
                {Resource(ResourceTypeCategory, "c2")}, {RelationSharer}, {NoExpiry})

NextGEP ==
  \/ Mutate(GEPTuples)
  \/ Checker_GetEffectivePermissions(TenantID, UserID, ResourceTypeDocument, "d1")
  \/ GetEffectivePermissions_Loop
  \/ CheckStep
  \/ GetEffectivePermissions_Result

SpecGEP == InitDirect /\ [][NextGEP]_vars

\* SpecTable: Engine.Check of each permission on the document d1, with
\* healthy ports; the user can hold a tuple of each relation on it.
TableTuples ==
  Tuples({Subject(SubjectTypeUser, UserID)}, {Resource(ResourceTypeDocument, "d1")},
         Relations, {NoExpiry})

NextTable ==
  \/ Mutate(TableTuples)
  \/ \E permission \in Permissions :
       Check(CheckContext(TenantID, UserID, Resource(ResourceTypeDocument, "d1"),
                          permission))
  \/ CheckStep
  \/ Check_Return

SpecTable == InitDirect /\ [][NextTable]_vars

\* SpecConcurrent: Engine.Check of the document d1 in c2 while other callers
\* grant and revoke Owner tuples of the user and of a role on the document,
\* with healthy ports.
ConcurrentTuples ==
  Tuples({Subject(SubjectTypeUser, UserID), Subject(SubjectTypeRole, RoleA)},
         {Resource(ResourceTypeDocument, "d1")}, {RelationOwner}, {NoExpiry})

NextConcurrent ==
  \/ Mutate(ConcurrentTuples)
  \/ Check(CheckContext(TenantID, UserID, Resource(ResourceTypeDocument, "d1"),
                        PermissionRead))
  \/ CheckStep
  \/ Check_Return
  \/ \E tuple \in ConcurrentTuples : Grant_Concurrent(tuple)
  \/ \E tuple \in ConcurrentTuples :
       Revoke_Concurrent(tuple.tenantID, Resource(tuple.resourceType, tuple.resourceID),
                         tuple.relation, Subject(tuple.subjectType, tuple.subjectID))

SpecConcurrent == InitDirect /\ [][NextConcurrent]_vars

\* SpecParent: Engine.Check of the document d1 and of the category c2 on the
\* chain d1 in c2, c2 in c1, where the lookup of the first parent or the
\* lookup of a next parent may fail.  The user can hold Viewer and Owner
\* tuples on the two categories.
ParentFaults == {{"step4"}, {"walkNext"}}

ParentTuples ==
  Tuples({Subject(SubjectTypeUser, UserID)},
         {Resource(ResourceTypeCategory, c) : c \in Categories},
         {RelationViewer, RelationOwner}, {NoExpiry})

InitParent == InitWith({ChainParent}, {ChainDocCat}, ParentFaults)

NextParent ==
  \/ Mutate(ParentTuples)
  \/ \E res \in Targets, permission \in CheckPermissions :
       Check(CheckContext(TenantID, UserID, res, permission))
  \/ CheckStep
  \/ Check_Return

SpecParent == InitParent /\ [][NextParent]_vars

\* SpecRoles: Engine.Check of the document d1 on the chain and the listing
\* of the categories, where GetUserRoleIDs may fail (and, in the listing,
\* the store's lists as well).  The user, a role and the tenant can hold
\* Owner tuples on the document and on the top category.
RoleFaults == {{"step2", "list"}}

RoleTuples ==
  Tuples({Subject(SubjectTypeUser, UserID), Subject(SubjectTypeRole, RoleA),
          Subject(SubjectTypeTenant, TenantAll)},
         {Resource(ResourceTypeDocument, "d1"), Resource(ResourceTypeCategory, "c1")},
         {RelationOwner}, {NoExpiry})

InitRoles == InitWith({ChainParent}, {ChainDocCat}, RoleFaults)

NextRoles ==
  \/ Mutate(RoleTuples)
  \/ \E permission \in CheckPermissions :
       Check(CheckContext(TenantID, UserID, Resource(ResourceTypeDocument, "d1"),
                          permission))
  \/ CheckStep
  \/ Check_Return
  \/ ListAccessibleCategories(TenantID, UserID)
  \/ ListAccessibleResources_Run

SpecRoles == InitRoles /\ [][NextRoles]_vars

\* SpecListAny: Engine.ListAccessibleResources for either resource type and
\* for a permission every relation grants or one only Owner grants, with
\* healthy ports.  The user can hold Viewer and Owner tuples, a role and the
\* tenant Viewer tuples, on the document and on the top category.
ListAnyTuples ==
  Tuples({Subject(SubjectTypeUser, UserID)},
         {Resource(ResourceTypeDocument, "d1"), Resource(ResourceTypeCategory, "c1")},
         {RelationViewer, RelationOwner}, {NoExpiry})
    \cup Tuples({Subject(SubjectTypeRole, RoleA), Subject(SubjectTypeTenant, TenantAll)},
                {Resource(ResourceTypeDocument, "d1"), Resource(ResourceTypeCategory, "c1")},
                {RelationViewer}, {NoExpiry})

NextListAny ==
  \/ Mutate(ListAnyTuples)
  \/ \E resourceType \in {ResourceTypeCategory, ResourceTypeDocument},
        permission \in CheckPermissions :
       ListAccessibleResources(TenantID, UserID, resourceType, permission)
  \/ ListAccessibleResources_Run

SpecListAny == InitChain /\ [][NextListAny]_vars

\* SpecSibling: the Check of SpecChain where the HasPermission calls of one
\* kind of sub-check may fail: those for the user on the target, for the
\* tenant on the target, or for the user on an ancestor.
SiblingFaults == {{"step1"}, {"step3"}, {"walkUser"}}

InitSibling == InitWith({ChainParent}, {ChainDocCat}, SiblingFaults)

SpecSibling == InitSibling /\ [][NextChain]_vars

\* SpecChecker: every Checker method on the document of the chain and on its
\* top category, with user and role tuples on both, healthy ports.
CheckerTuples ==
  {PermissionTuple(TenantID, res, relation, subj, NoExpiry) :
     res \in {Resource(ResourceTypeDocument, "d1"), Resource(ResourceTypeCategory, "c1")},
     relation \in {RelationViewer, RelationSharer, RelationOwner},
     subj \in {Subject(SubjectTypeUser, UserID), Subject(SubjectTypeRole, RoleA)}}

NextChecker ==
  \/ Mutate(CheckerTuples)
  \/ \E resourceType \in {ResourceTypeCategory, ResourceTypeDocument} :
       LET resourceID == IF resourceType = ResourceTypeDocument THEN "d1" ELSE "c1"
           res == Resource(resourceType, resourceID)
       IN  \/ CanRead(TenantID, UserID, res)
           \/ CanWrite(TenantID, UserID, res)
           \/ CanDelete(TenantID, UserID, res)
           \/ CanShare(TenantID, UserID, res)
           \/ CanDownload(TenantID, UserID, res)
           \/ \E permission \in Permissions :
                \/ CheckPermission(TenantID, UserID, resourceType, resourceID, permission)
                \/ RequirePermission(TenantID, UserID, resourceType, resourceID, permission)
  \/ CanReadCategory(TenantID, UserID, "c1")
  \/ CanWriteCategory(TenantID, UserID, "c1")
  \/ CanDeleteCategory(TenantID, UserID, "c1")
  \/ CanShareCategory(TenantID, UserID, "c1")
  \/ CanReadDocument(TenantID, UserID, "d1")
  \/ CanWriteDocument(TenantID, UserID, "d1")
  \/ CanDeleteDocument(TenantID, UserID, "d1")
  \/ CanShareDocument(TenantID, UserID, "d1")
  \/ CanDownloadDocument(TenantID, UserID, "d1")
  \/ CheckStep
  \/ Can_Return
  \/ CheckPermission_Return
  \/ RequirePermission_Return

SpecChecker == InitChain /\ [][NextChecker]_vars

\* SpecService: the deleting handlers of the document and category
\* services, called by the user for two documents of one category; the user
\* holds Owner or Viewer tuples on the first document and Owner tuples on
\* the second and on the category, and the lookup of the user's tuple on the
\* target may fail.
ServiceDocuments == {"d1", "d2"}
ServiceTuples ==
  Tuples({Subject(SubjectTypeUser, UserID)}, {Resource(ResourceTypeDocument, "d1")},
         {RelationOwner, RelationViewer}, {NoExpiry})
    \cup Tuples({Subject(SubjectTypeUser, UserID)},
                {Resource(ResourceTypeDocument, "d2"), Resource(ResourceTypeCategory, "c1")},
                {RelationOwner}, {NoExpiry})
\* The id lists of a batch request: one or two ids, repeated or not.
BatchRequests == {<<"d1">>, <<"d1", "d1">>, <<"d1", "d2">>, <<"d2", "d1">>}

InitService ==
  InitWith({DirectParent}, {[d \in ServiceDocuments |-> "c1"]}, {{"step1"}})

NextService ==
  \/ (svc = NoService /\ Mutate(ServiceTuples))
  \/ \E id \in ServiceDocuments : DeleteDocument(id, TRUE)
  \/ DeleteDocument_Check
  \/ DeleteDocument_Run
  \/ DeleteCategory("c1", FALSE)
  \/ DeleteCategory_Check
  \/ DeleteCategory_Run
  \/ \E ids \in BatchRequests : BatchDeleteDocuments(ids, TRUE)
  \/ BatchDeleteDocuments_Check
  \/ BatchDeleteDocuments_Checked
  \/ BatchDeleteDocuments_Run
  \/ CheckStep
  \/ Can_Return

SpecService == InitService /\ [][NextService]_vars

\* SpecDirectList: Engine.ListPermissions on the document and on its
\* category, with a store that may fail.  The user holds Viewer tuples,
\* expiring at 0 or never, on the document and on its category, under
\* either tenant on the document.
DirectListTuples ==
  Tuples({Subject(SubjectTypeUser, UserID)},
         {Resource(ResourceTypeDocument, "d1"), Resource(ResourceTypeCategory, "c2")},
         {RelationViewer}, {0, NoExpiry})
    \cup {PermissionTuple(OtherTenantID, Resource(ResourceTypeDocument, "d1"),
                          RelationViewer, Subject(SubjectTypeUser, UserID), NoExpiry)}

InitDirectList == InitWith({ChainParent}, {ChainDocCat}, {{"listPermissions"}})

NextDirectList ==
  \/ Mutate(DirectListTuples)
  \/ \E res \in {Resource(ResourceTypeDocument, "d1"), Resource(ResourceTypeCategory, "c2")} :
       ListPermissions(TenantID, res.resourceType, res.resourceID)
  \/ ListPermissions_Run
  \/ Tick

SpecDirectList == InitDirectList /\ [][NextDirectList]_vars

\* SpecDeny: Checker.CanDelete and Checker.RequirePermission for Delete
\* over every hierarchy, every port call possibly failing, with the Editor
\* tuples of Spec, which never grant Delete and expire at 0, and the Owner
\* tuple of the user on the top category.
DenyTuples ==
  GrantTuples
    \cup Tuples({Subject(SubjectTypeUser, UserID)}, {Resource(ResourceTypeCategory, "c1")},
                {RelationOwner}, {0})

NextDeny ==
  \/ Mutate(DenyTuples)
  \/ CanDelete(TenantID, UserID, Resource(ResourceTypeDocument, "d1"))
  \/ RequirePermission(TenantID, UserID, ResourceTypeCategory, "c2", PermissionDelete)
  \/ CheckStep
  \/ Can_Return
  \/ CheckPermission_Return
  \/ RequirePermission_Return
  \/ Tick

SpecDeny == Init /\ [][NextDeny]_vars

\* SpecOverride: Engine.Check for Delete on the document of the chain,
\* with healthy ports, starting from a store in which the user holds a
\* Viewer tuple on the document and a later path of the order (the role
\* returned last or the tenant wildcard on the document, the user on the
\* document's category) holds a Viewer and an Owner tuple.
OverrideTarget == Resource(ResourceTypeDocument, "d1")

OverridePaths ==
  {<<Subject(SubjectTypeRole, RoleA), OverrideTarget>>,
   <<Subject(SubjectTypeTenant, TenantAll), OverrideTarget>>,
   <<Subject(SubjectTypeUser, UserID), Resource(ResourceTypeCategory, "c2")>>}

OverrideStores ==
  {SetToBag({PermissionTuple(TenantID, OverrideTarget, RelationViewer,
                             Subject(SubjectTypeUser, UserID), NoExpiry),
             PermissionTuple(TenantID, path[2], RelationViewer, path[1], NoExpiry),
             PermissionTuple(TenantID, path[2], RelationOwner, path[1], NoExpiry)}) :
     path \in OverridePaths}

OverrideTuples ==
  UNION {BagToSet(S) : S \in OverrideStores}

InitOverride ==
  InitStores(OverrideStores, {ChainParent}, {ChainDocCat}, {[c \in Categories |-> Nil]},
             {[d \in Documents |-> Nil]}, {{}})

NextOverride ==
  \/ Mutate(OverrideTuples)
  \/ Check(CheckContext(TenantID, UserID, OverrideTarget, PermissionDelete))
  \/ CheckStep
  \/ Check_Return

SpecOverride == InitOverride /\ [][NextOverride]_vars

\* SpecReadOnly: every reading method of the engine and of the Checker on
\* the document of the chain and on its top category, between grants and
\* revocations of an Owner tuple of the user on the document that expires at
\* 0 and of a Viewer tuple of the role on the top category, with a clock.
ReadOnlyTuples ==
  {PermissionTuple(TenantID, Resource(ResourceTypeDocument, "d1"), RelationOwner,
                   Subject(SubjectTypeUser, UserID), 0),
   PermissionTuple(TenantID, Resource(ResourceTypeCategory, "c1"), RelationViewer,
                   Subject(SubjectTypeRole, RoleA), NoExpiry)}

NextReadOnly ==
  \/ Mutate(ReadOnlyTuples)
  \/ Tick
  \/ Check(CheckContext(TenantID, UserID, Resource(ResourceTypeDocument, "d1"), PermissionRead))
  \/ Check_Return
  \/ Checker_GetEffectivePermissions(TenantID, UserID, ResourceTypeDocument, "d1")
  \/ GetEffectivePermissions_Loop
  \/ GetEffectivePermissions_Result
  \/ ListPermissions(TenantID, ResourceTypeDocument, "d1")
  \/ ListPermissions_Run
  \/ ListAccessibleCategories(TenantID, UserID)
  \/ ListAccessibleDocuments(TenantID, UserID)
  \/ ListAccessibleResources_Run
  \/ \E permission \in Permissions :
       Can(permission, TenantID, UserID, Resource(ResourceTypeDocument, "d1"))
  \/ CheckPermission(TenantID, UserID, ResourceTypeDocument, "d1", PermissionDelete)
  \/ RequirePermission(TenantID, UserID, ResourceTypeCategory, "c1", PermissionShare)
  \/ CanReadCategory(TenantID, UserID, "c1")
  \/ CanWriteCategory(TenantID, UserID, "c1")
  \/ CanDeleteCategory(TenantID, UserID, "c1")
  \/ CanShareCategory(TenantID, UserID, "c1")
  \/ CanReadDocument(TenantID, UserID, "d1")
  \/ CanWriteDocument(TenantID, UserID, "d1")
  \/ CanDeleteDocument(TenantID, UserID, "d1")
  \/ CanShareDocument(TenantID, UserID, "d1")
  \/ CanDownloadDocument(TenantID, UserID, "d1")
  \/ CheckStep
  \/ Can_Return
  \/ CheckPermission_Return
  \/ RequirePermission_Return

SpecReadOnly == InitChain /\ [][NextReadOnly]_vars

\* SpecEffective: the effective permissions of the user on the document,
\* with healthy ports and a clock that stands still during a call; the user
\* can hold Owner tuples on the document that expire at 0 or never.
EffectiveTuples ==
  Tuples({Subject(SubjectTypeUser, UserID)}, {Resource(ResourceTypeDocument, "d1")},
         {RelationOwner}, {0, NoExpiry})

NextEffective ==
  \/ Mutate(EffectiveTuples)
  \/ Tick
  \/ Checker_GetEffectivePermissions(TenantID, UserID, ResourceTypeDocument, "d1")
  \/ GetEffectivePermissions_Loop
  \/ CheckStep
  \/ GetEffectivePermissions_Result

SpecEffective == InitDirect /\ [][NextEffective]_vars

\* SpecBatch: BatchDeleteDocuments alone, on the documents, tuples and
\* requests of SpecService.
NextBatch ==
  \/ (svc = NoService /\ Mutate(ServiceTuples))
  \/ \E ids \in BatchRequests : BatchDeleteDocuments(ids, TRUE)
  \/ BatchDeleteDocuments_Check
  \/ BatchDeleteDocuments_Checked
  \/ BatchDeleteDocuments_Run
  \/ CheckStep
  \/ Can_Return

SpecBatch == InitService /\ [][NextBatch]_vars

\* SpecProcess: ProcessDocument, one call at a time, for two uploaded
\* documents of any of the four kinds of MIME type.
MimeTypes == {mimeTypePDF, mimeTypeDOC, mimeTypeDOCX, mimeTypeOther}

NextProcess ==
  \/ \E documentID \in ServiceDocuments, mimeType \in MimeTypes :
       ProcessDocument(documentID, mimeType)
  \/ ProcessDocument_Start
  \/ ProcessDocument_Convert
  \/ ProcessDocument_ExtractText
  \/ ProcessDocument_ExtractMetadata
  \/ ProcessDocument_Failed
  \/ ProcessDocument_Skipped
  \/ ProcessDocument_Completed

SpecProcess == InitService /\ [][NextProcess]_vars

\* SpecRevoke: grants and revocations, through the engine and through the
\* permission service, of Viewer and Owner tuples of a user and of a role
\* on a document under either tenant, and of the user's Viewer tuple on a
\* category.
RevokeTuples ==
  {PermissionTuple(tenantID, Resource(ResourceTypeDocument, "d1"), relation, subj, NoExpiry) :
     tenantID \in {TenantID, OtherTenantID},
     relation \in {RelationViewer, RelationOwner},
     subj \in {Subject(SubjectTypeUser, UserID), Subject(SubjectTypeRole, RoleA)}}
    \cup {PermissionTuple(TenantID, Resource(ResourceTypeCategory, "c1"), RelationViewer,
                          Subject(SubjectTypeUser, UserID), NoExpiry)}

NextRevoke ==
  \/ Mutate(RevokeTuples)
  \/ RevokeAll(RevokeTuples)
  \/ \E tuple \in RevokeTuples :
     \E relation \in {Nil, RelationUnspecified, tuple.relation} :
       RevokeAccess(tuple.tenantID, tuple.resourceType, tuple.resourceID, relation,
                    tuple.subjectType, tuple.subjectID)

SpecRevoke == InitDirect /\ [][NextRevoke]_vars

\* SpecTenant: calls for either tenant while both tenants hold tuples on
\* the same resource ids for the same subject ids, with healthy ports.  The
\* first tenant has the chain d1 in c2, c2 in c1; the second has d1 in c1,
\* and c1 in c2 or at the top.
Tenants == {TenantID, OtherTenantID}

TenantTuples ==
  {PermissionTuple(tenantID, res, relation, subj, NoExpiry) :
     tenantID \in Tenants,
     res \in {Resource(ResourceTypeDocument, "d1"), Resource(ResourceTypeCategory, "c1")},
     relation \in {RelationViewer, RelationOwner},
     subj \in {Subject(SubjectTypeUser, UserID), Subject(SubjectTypeRole, RoleA)}}

InitTenant == InitTenants({ChainParent}, {ChainDocCat}, OtherParentMaps, OtherDocMaps, {{}})

NextTenant ==
  \/ Mutate(TenantTuples)
  \/ \E tenantID \in Tenants, permission \in CheckPermissions :
       Check(CheckContext(tenantID, UserID, Resource(ResourceTypeDocument, "d1"),
                          permission))
  \/ CheckStep
  \/ Check_Return
  \/ \E tenantID \in Tenants :
       ListPermissions(tenantID, ResourceTypeCategory, "c1")
  \/ ListPermissions_Run
  \/ \E tenantID \in Tenants : ListAccessibleCategories(tenantID, UserID)
  \/ ListAccessibleResources_Run
  \/ \E tenantID \in Tenants :
       Checker_GetEffectivePermissions(tenantID, UserID, ResourceTypeDocument, "d1")
  \/ GetEffectivePermissions_Loop
  \/ GetEffectivePermissions_Result

SpecTenant == InitTenant /\ [][NextTenant]_vars

\* ------------------------------------------------------------------------
\* Properties
\* ------------------------------------------------------------------------
\* Engine.Check has computed its result.
Returned == pc \in {"return", "done"}

\* The ancestor categories of a resource: its owning or parent category,
\* then the parents, as far as the hierarchy leads (a cycle is left at the
\* first repeated id).
RECURSIVE AncestorsFrom(_, _)
AncestorsFrom(id, found) ==
  IF id = Nil \/ id \in found THEN found
  ELSE AncestorsFrom(ParentOf(check.TenantID, id), found \cup {id})

Ancestors(resourceType, resourceID) ==
  AncestorsFrom(IF resourceType = ResourceTypeDocument
                THEN CategoryOf(check.TenantID, resourceID)
                ELSE ParentOf(check.TenantID, resourceID), {})

\* The tuple is on the checked resource or on one of its ancestor categories.
OnTargetOrAncestor(t) ==
  \/ t.resourceType = check.ResourceType /\ t.resourceID = check.ResourceID
  \/ /\ t.resourceType = ResourceTypeCategory
     /\ t.resourceID \in Ancestors(check.ResourceType, check.ResourceID)

\* The subject of the tuple is the user, a role GetUserRoleIDs returned to
\* this check, or the tenant wildcard.
SubjectOfUser(t) ==
  \/ t.subjectType = SubjectTypeUser /\ t.subjectID = check.UserID
  \/ t.subjectType = SubjectTypeRole /\ \E j \in 1 .. Len(roleIDs) : roleIDs[j] = t.subjectID
  \/ t.subjectType = SubjectTypeTenant /\ t.subjectID = TenantAll

\* C1 (fail-closed soundness): whatever the store holds, whatever the shape
\* of the hierarchy and whichever port calls fail, Check allows only on a
\* tuple the store returned for the check's tenant that is on the target or
\* one of its ancestor categories, whose subject is the user, a returned role
\* or Tenant("all"), that is not expired and whose relation grants the
\* requested permission.
FailClosed ==
  (Returned /\ result.Allowed) =>
    /\ via # <<>>
    /\ BagIn(via[1].tuple, store)
    /\ via[1].tuple.tenantID = check.TenantID
    /\ OnTargetOrAncestor(via[1].tuple)
    /\ SubjectOfUser(via[1].tuple)
    /\ ~Expired(via[1].tuple, via[1].at)
    /\ RelationGrantsPermission(via[1].tuple.relation, check.Permission)
    /\ result.Relation = via[1].tuple.relation

\* An allowed check of a document through a role tuple on its category's
\* parent, after a port call failed, in a cyclic hierarchy.
FailClosedWitness ==
  /\ op = "Check" /\ pc = "done" /\ result.Allowed /\ errs
  /\ check.ResourceType = ResourceTypeDocument
  /\ Len(walk) = 2
  /\ parent[walk[2]] = walk[1]
  /\ via # <<>> /\ via[1].tuple.subjectType = SubjectTypeRole

\* No category occurs twice among the categories checkHierarchy evaluated.
NoRevisit == \A a, b \in 1 .. Len(walk) : a # b => walk[a] # walk[b]

\* No tuple of the store has a relation that grants the requested permission.
NoGrantingTuple ==
  \A t \in BagToSet(store) : ~RelationGrantsPermission(t.relation, check.Permission)

\* C6 (cycle safety): for every parent map, cycles and self-loops included,
\* a started Check returns; it evaluates no category twice; and with no
\* granting tuple anywhere it denies.
CycleSafe ==
  /\ [](NoRevisit /\ Len(walk) <= Cardinality(Categories))
  /\ []((Returned /\ NoGrantingTuple) => ~result.Allowed)
  /\ ((pc = "step1") ~> (pc = "done"))

\* A denied check of a category on a two-cycle that walked both categories
\* and stopped at the repeated id.
CycleSafeWitness ==
  /\ op = "Check" /\ pc = "done" /\ ~result.Allowed /\ ~errs
  /\ check.ResourceType = ResourceTypeCategory
  /\ Len(walk) = 2
  /\ walk[2] = check.ResourceID
  /\ parent[walk[2]] = walk[1] /\ parent[walk[1]] = walk[2]

\* ---- helpers of the path properties ----
\* The tuple grants the requested permission at the given time.
Granting(t, time) ==
  ~Expired(t, time) /\ RelationGrantsPermission(t.relation, check.Permission)

\* The tuples the subject holds on the resource, for the check's tenant.
Held(res, subj) ==
  Matching(check.TenantID, res.resourceType, res.resourceID,
           subj.subjectType, subj.subjectID)

\* Some tuple of the subject on the resource grants.
MayAllow(res, subj, time) == \E t \in Held(res, subj) : Granting(t, time)

\* The subject holds a tuple on the resource and each one it holds grants,
\* so that the lookup returns a granting tuple.
SurelyAllows(res, subj, time) ==
  Held(res, subj) # {} /\ \A t \in Held(res, subj) : Granting(t, time)

\* The subjects Check evaluates, in its order: the user, the roles as
\* returned, the tenant wildcard.
SubjectsInOrder ==
  <<Subject(SubjectTypeUser, check.UserID)>>
    \o [j \in 1 .. Len(roleIDs) |-> Subject(SubjectTypeRole, roleIDs[j])]
    \o <<Subject(SubjectTypeTenant, TenantAll)>>

\* The resource evaluated at a level: 0 is the target, n the n-th category
\* of the walk.
LevelResource(n) ==
  IF n = 0 THEN Resource(check.ResourceType, check.ResourceID)
  ELSE Resource(ResourceTypeCategory, walk[n])

\* The position in SubjectsInOrder of the subject of the allowing tuple.
ViaRank ==
  CHOOSE j \in 1 .. Len(SubjectsInOrder) :
    SubjectsInOrder[j] = Subject(via[1].tuple.subjectType, via[1].tuple.subjectID)

InheritedReasons ==
  {"inherited from parent category", "inherited from parent category via role",
   "inherited from parent category via tenant"}

ExpiredNeverAllows ==
  /\ []((Returned /\ result.Allowed) => (via # <<>> /\ ~Expired(via[1].tuple, via[1].at)))
  /\ []((pc = "return" /\ \A t \in BagToSet(store) : Expired(t, now)) => ~result.Allowed)
  /\ [][(CheckStep \/ Check_Return) => store' = store]_vars

\* A denied check with an expired Owner tuple of the user on the document
\* and an expired Owner tuple on its category still in the store.
ExpiredNeverAllowsWitness ==
  /\ op = "Check" /\ pc = "return" /\ ~result.Allowed
  /\ BagIn(PermissionTuple(TenantID, Resource(check.ResourceType, check.ResourceID),
                           RelationOwner, Subject(SubjectTypeUser, UserID), 0), store)
  /\ BagIn(PermissionTuple(TenantID, Resource(ResourceTypeCategory, "c2"),
                           RelationOwner, Subject(SubjectTypeTenant, TenantAll), 0), store)
  /\ now > 0

\* ---- inheritance ----
RECURSIVE AncestorSeqFrom(_, _)
AncestorSeqFrom(id, seq) ==
  IF id = Nil \/ \E n \in 1 .. Len(seq) : seq[n] = id THEN seq
  ELSE AncestorSeqFrom(ParentOf(check.TenantID, id), Append(seq, id))

\* The categories above the target of the check, nearest first.
AncestorSeq ==
  AncestorSeqFrom(IF check.ResourceType = ResourceTypeDocument
                  THEN CategoryOf(check.TenantID, check.ResourceID)
                  ELSE ParentOf(check.TenantID, check.ResourceID), <<>>)

\* The subjects that stand for the user: the user, the user's roles, the
\* tenant wildcard.
UserSubjects ==
  {Subject(SubjectTypeUser, check.UserID), Subject(SubjectTypeTenant, TenantAll)}
    \cup {Subject(SubjectTypeRole, userRoles[j]) : j \in 1 .. Len(userRoles)}

CategoryAt(n) == Resource(ResourceTypeCategory, AncestorSeq[n])

\* No tuple of the user's subjects on the target itself grants.
NoDirectGrant ==
  \A subj \in UserSubjects :
    ~MayAllow(Resource(check.ResourceType, check.ResourceID), subj, now)

\* C5 as stated, for a target on which nothing grants: an unexpired
\* granting tuple of the user, a role of the user or the tenant on an
\* ancestor makes the check allowed, with a reason that mentions
\* inheritance and a relation held on the nearest ancestor with such a tuple.
InheritsAsStated ==
  (op = "Check" /\ pc = "return" /\ ~errs /\ NoDirectGrant
     /\ \E n \in 1 .. Len(AncestorSeq) : \E subj \in UserSubjects :
          MayAllow(CategoryAt(n), subj, now))
    => LET nearest == CHOOSE n \in 1 .. Len(AncestorSeq) :
                        /\ \E subj \in UserSubjects : MayAllow(CategoryAt(n), subj, now)
                        /\ \A m \in 1 .. n - 1 : \A subj \in UserSubjects :
                             ~MayAllow(CategoryAt(m), subj, now)
       IN /\ result.Allowed
          /\ result.Reason \in InheritedReasons
          /\ \E subj \in UserSubjects : \E t \in Held(CategoryAt(nearest), subj) :
               Granting(t, now) /\ result.Relation = t.relation

\* ---- owner completeness, revoke-all ----
OwnerTuple(userID, res) ==
  PermissionTuple(TenantID, res, RelationOwner, Subject(SubjectTypeUser, userID), NoExpiry)

\* C4 as stated: once the store holds an unexpired Owner tuple of the user
\* on the resource, each of CanRead, CanWrite, CanDelete, CanShare and
\* CanDownload succeeds, whatever else the store holds.
OwnerComplete ==
  (op \in CanNames /\ pc = "done" /\ ~errs
     /\ BagIn(OwnerTuple(check.UserID, Resource(check.ResourceType, check.ResourceID)),
              store))
    => err = Nil

\* CanDelete refused to the owner of the document, who also holds a Viewer
\* tuple on it.
OwnerShadowed ==
  /\ op = "CanDelete" /\ pc = "done"
  /\ err = AccessDenied("no permission found")
  /\ BagIn(OwnerTuple(UserID, Resource(ResourceTypeDocument, "d1")), store)
  /\ BagCardinality(store) = 2

\* No tuple on the target or on one of its ancestors grants the requested
\* permission to the user, a role of the user or the tenant.
NoGrantOnPath ==
  /\ NoDirectGrant
  /\ \A n \in 1 .. Len(AncestorSeq) : \A subj \in UserSubjects :
       ~MayAllow(CategoryAt(n), subj, now)

\* C10 (revoke-all): a Revoke with a nil relation that succeeds leaves the
\* subject no tuple on the resource, whatever relations it held; and a Check
\* made when no tuple on the target or its ancestors grants to the user
\* denies with reason "no permission found".
RevokeAllDenies ==
  /\ [][\A t \in DirectTuples :
          (Revoke(t.tenantID, Resource(t.resourceType, t.resourceID), Nil,
                  Subject(t.subjectType, t.subjectID)) /\ err' = Nil)
            => (Matching(t.tenantID, t.resourceType, t.resourceID,
                         t.subjectType, t.subjectID))' = {}]_vars
  /\ []((pc = "return" /\ NoGrantOnPath)
          => (~result.Allowed /\ result.Reason = "no permission found"))

\* The user held Owner and Sharer on the document, one Revoke with a nil
\* relation removed both, and the check that follows is denied.
RevokeAllDeniesWitness ==
  /\ op \in CanNames /\ pc = "return"
  /\ {t.relation : t \in revoked} = {RelationOwner, RelationSharer}
  /\ \A t \in revoked : t.subjectType = SubjectTypeUser /\ t.resourceID = check.ResourceID
  /\ ~result.Allowed /\ result.Reason = "no permission found"

\* ---- cancellation ----
\* C7 as stated: a Check whose context was cancelled before it returned
\* is never reported as allowed.
CancelledNeverAllowed ==
  (op = "Check" /\ pc = "done" /\ cancelled) => ~result.Allowed

\* A Check cancelled after its lookup returned the granting tuple and
\* before it returned, reported as allowed.
CancelledAllowed ==
  /\ op = "Check" /\ pc = "done" /\ cancelled
  /\ result.Allowed /\ result.Reason = "direct permission"

\* ---- listing ----
\* The ids the store lists for a subject, for the type asked for.
Listed(subj) ==
  {t.resourceID : t \in {u \in BagToSet(store) :
     /\ u.tenantID = check.TenantID
     /\ u.subjectType = subj.subjectType /\ u.subjectID = subj.subjectID
     /\ u.resourceType = check.ResourceType}}

\* C8 (union listing, deduplicated): ListAccessibleResources returns each
\* id once; when no list call fails it returns exactly the ids the store
\* lists for the user, the user's roles and Tenant("all") for the requested
\* type, so nothing reached only through an ancestor; when a role or tenant
\* list fails it returns part of them, the user's among them; when the
\* user's list fails it returns the error and no id.
ListIsUnion ==
  (op = "ListAccessibleResources" /\ pc = "done") =>
    LET got == {resources[j] : j \in 1 .. Len(resources)}
        union == UNION {Listed(subj) : subj \in UserSubjects}
    IN  /\ Cardinality(got) = Len(resources)
        /\ got \subseteq union
        /\ (err = Nil /\ ~errs) => got = union
        /\ err = Nil => Listed(Subject(SubjectTypeUser, check.UserID)) \subseteq got
        /\ err # Nil => resources = <<>>

\* The categories are listed; the user and a role of the user both hold a
\* tuple on c2, which is returned once, and the document in c2 is no part
\* of the list.
ListIsUnionWitness ==
  /\ op = "ListAccessibleResources" /\ pc = "done" /\ err = Nil /\ ~errs
  /\ check.ResourceType = ResourceTypeCategory
  /\ resources = <<"c2">>
  /\ Listed(Subject(SubjectTypeUser, UserID)) = {"c2"}
  /\ Listed(Subject(SubjectTypeRole, RoleA)) = {"c2"}

\* ---- effective permissions ----
\* The highest of a set of relations under the ranking; Unspecified for none.
HighestOf(S) ==
  IF S = {} THEN RelationUnspecified
  ELSE CHOOSE r \in S : \A q \in S : RelationRank(r) >= RelationRank(q)

\* C9 (effective permissions): GetEffectivePermissions runs the five
\* checks and returns exactly the permissions whose Check allowed, with the
\* highest, under the ranking, of the relations those checks reported; with a
\* single Editor tuple of the user on the resource that is {Read, Write,
\* Download} and Editor; with nothing allowed the relation is Unspecified.
EffectivePermissions ==
  (op = "GetEffectivePermissions" /\ pc = "done") =>
    LET allowed == {j \in 1 .. Len(log) : log[j].Allowed}
    IN  /\ Len(log) = Len(PermissionOrder)
        /\ permissions = {PermissionOrder[j] : j \in allowed}
        /\ highestRelation = HighestOf({log[j].Relation : j \in allowed})
        /\ (permissions = {} => highestRelation = RelationUnspecified)
        /\ (store = SetToBag({PermissionTuple(TenantID,
                                              Resource(check.ResourceType, check.ResourceID),
                                              RelationEditor,
                                              Subject(SubjectTypeUser, check.UserID),
                                              NoExpiry)})
              => /\ permissions = {PermissionRead, PermissionWrite, PermissionDownload}
                 /\ highestRelation = RelationEditor)

\* Read was allowed as Viewer by the user's tuple, Delete as Owner by the
\* tenant's: all five permissions are returned, with Owner.
EffectivePermissionsWitness ==
  /\ op = "GetEffectivePermissions" /\ pc = "done"
  /\ log[1].Allowed /\ log[1].Relation = RelationViewer
  /\ log[3].Allowed /\ log[3].Relation = RelationOwner
  /\ permissions = Permissions
  /\ highestRelation = RelationOwner

\* ---- grants table ----
\* The rows of the grants table as the claim lists them.
StatedRow(relation) ==
  CASE relation = RelationOwner ->
         {PermissionRead, PermissionWrite, PermissionDelete, PermissionShare,
          PermissionDownload}
    [] relation = RelationEditor -> {PermissionRead, PermissionWrite, PermissionDownload}
    [] relation = RelationViewer -> {PermissionRead, PermissionDownload}
    [] relation = RelationSharer -> {PermissionRead, PermissionShare, PermissionDownload}
    [] relation = RelationUnspecified -> {}

\* The store holds one tuple, of the user on the target.
SingleDirectTuple ==
  /\ BagCardinality(store) = 1
  /\ \A t \in BagToSet(store) :
       /\ t.tenantID = check.TenantID
       /\ t.resourceType = check.ResourceType /\ t.resourceID = check.ResourceID
       /\ t.subjectType = SubjectTypeUser /\ t.subjectID = check.UserID
       /\ ~Expired(t, now)

\* C11 (grants table through Check): with a single unexpired tuple of
\* relation R of the user on the target, Check(p) is allowed exactly when p
\* is in the row of R: Owner all five, Editor Read/Write/Download, Viewer
\* Read/Download, Sharer Read/Share/Download, Unspecified none; an allowed
\* result reports R.
GrantsTableObserved ==
  (op = "Check" /\ pc = "return" /\ SingleDirectTuple) =>
    \A t \in BagToSet(store) :
      /\ result.Allowed = (check.Permission \in StatedRow(t.relation))
      /\ result.Allowed => result.Relation = t.relation

\* The user's only tuple is Editor and Delete is denied.
GrantsTableObservedWitness ==
  /\ op = "Check" /\ pc = "return" /\ SingleDirectTuple
  /\ \A t \in BagToSet(store) : t.relation = RelationEditor
  /\ check.Permission = PermissionDelete
  /\ ~result.Allowed

\* ---- Check as one atomic evaluation ----
\* The subjects of the user with the roles of the request context, in order.
EvalSubjects ==
  <<Subject(SubjectTypeUser, check.UserID)>>
    \o [j \in 1 .. Len(userRoles) |-> Subject(SubjectTypeRole, userRoles[j])]
    \o <<Subject(SubjectTypeTenant, TenantAll)>>

\* The reason of an allowing result at a level for a subject.
ReasonAt(level, subj) ==
  IF level = 0 THEN "direct permission"
  ELSE CASE subj.subjectType = SubjectTypeUser -> "inherited from parent category"
         [] subj.subjectType = SubjectTypeRole -> "inherited from parent category via role"
         [] OTHER -> "inherited from parent category via tenant"

\* The results Check can return for the permission when it is evaluated
\* in one piece, with healthy ports, for the given subjects in their order,
\* on the tuples of the bag S that belong to the tenant of the check and on
\* that tenant's hierarchy: from subject j of level n onwards, level 0 being
\* the target.
RECURSIVE EvalOverFrom(_, _, _, _, _, _)
EvalOverFrom(subjects, S, time, permission, n, j) ==
  IF n > Len(AncestorSeq) THEN {CheckResult(FALSE, Nil, "no permission found")}
  ELSE IF j > Len(subjects) THEN EvalOverFrom(subjects, S, time, permission, n + 1, 1)
  ELSE LET res == IF n = 0 THEN Resource(check.ResourceType, check.ResourceID)
                  ELSE CategoryAt(n)
           m == {t \in BagToSet(S) :
                   /\ t.tenantID = check.TenantID
                   /\ t.resourceType = res.resourceType /\ t.resourceID = res.resourceID
                   /\ t.subjectType = subjects[j].subjectType
                   /\ t.subjectID = subjects[j].subjectID}
           allow == {t \in m : ~Expired(t, time)
                                 /\ RelationGrantsPermission(t.relation, permission)}
       IN  {CheckResult(TRUE, t.relation, ReasonAt(n, subjects[j])) : t \in allow}
             \cup (IF m # {} /\ allow = m THEN {}
                   ELSE EvalOverFrom(subjects, S, time, permission, n, j + 1))

EvalFrom(S, time, permission, n, j) ==
  EvalOverFrom(EvalSubjects, S, time, permission, n, j)

Eval(S, time, permission) == EvalFrom(S, time, permission, 0, 1)

\* ---- tenant isolation ----
\* The tuples stored under a tenant.
TenantView(tenantID) ==
  LET own == {t \in BagToSet(store) : t.tenantID = tenantID}
  IN  [t \in own |-> store[t]]

\* C12 (tenant isolation): what a call for a tenant returns is decided by
\* the tuples and the hierarchy edges stored under that tenant alone, also
\* when the other tenant uses the same resource, subject and role ids: Check
\* returns a result of its evaluation on the tenant's own tuples and edges,
\* ListPermissions the tenant's own tuples on the resource,
\* ListAccessibleResources the ids of the tenant's own tuples, and
\* GetEffectivePermissions the outcome of five such checks.
TenantIsolation ==
  /\ (op \in {"Check", "GetEffectivePermissions"} /\ pc = "return")
       => result \in Eval(TenantView(check.TenantID), now, check.Permission)
  /\ (op = "ListPermissions" /\ pc = "done")
       => resources = [t \in {u \in BagToSet(TenantView(check.TenantID)) :
                                /\ u.resourceType = check.ResourceType
                                /\ u.resourceID = check.ResourceID} |-> store[t]]
  /\ (op = "ListAccessibleResources" /\ pc = "done")
       => {resources[j] : j \in 1 .. Len(resources)}
            = {t.resourceID : t \in {u \in BagToSet(TenantView(check.TenantID)) :
                 /\ u.resourceType = check.ResourceType
                 /\ \E subj \in UserSubjects :
                      u.subjectType = subj.subjectType /\ u.subjectID = subj.subjectID}}
  /\ (op = "GetEffectivePermissions" /\ pc = "done")
       => \A j \in 1 .. Len(log) :
            log[j] \in Eval(TenantView(check.TenantID), now, PermissionOrder[j])

\* The check for the first tenant is denied while the second tenant holds an
\* Owner tuple of the same user id on the same document id, and a hierarchy
\* that leads elsewhere.
TenantIsolationWitness ==
  /\ op = "Check" /\ pc = "return" /\ check.TenantID = TenantID
  /\ ~result.Allowed
  /\ BagIn(PermissionTuple(OtherTenantID, Resource(ResourceTypeDocument, "d1"),
                           RelationOwner, Subject(SubjectTypeUser, UserID), NoExpiry), store)
  /\ TenantView(TenantID) # EmptyBag
  /\ parentOther["c1"] = "c2"

\* ---- the Checker ----
\* The permission a Checker method stands for.
StatedPermission(method) ==
  CASE method \in {"CanRead", "CanReadCategory", "CanReadDocument"} -> PermissionRead
    [] method \in {"CanWrite", "CanWriteCategory", "CanWriteDocument"} -> PermissionWrite
    [] method \in {"CanDelete", "CanDeleteCategory", "CanDeleteDocument"} -> PermissionDelete
    [] method \in {"CanShare", "CanShareCategory", "CanShareDocument"} -> PermissionShare
    [] method \in {"CanDownload", "CanDownloadDocument"} -> PermissionDownload

\* The resource type a convenience method stands for.
StatedResourceType(method) ==
  IF method \in {"CanReadCategory", "CanWriteCategory", "CanDeleteCategory",
                 "CanShareCategory"}
  THEN ResourceTypeCategory ELSE ResourceTypeDocument

\* The CheckContext the arguments of the method in flight ask for.
StatedContext ==
  CASE op \in CanNames ->
         CheckContext(args[1], args[2], Resource(args[3], args[4]), StatedPermission(op))
    [] op \in ConvenienceNames ->
         CheckContext(args[1], args[2], Resource(StatedResourceType(op), args[3]),
                      StatedPermission(op))
    [] OTHER ->
         CheckContext(args[1], args[2], Resource(args[3], args[4]), args[5])

CheckerNames == CanNames \cup ConvenienceNames \cup {"CheckPermission", "RequirePermission"}

\* C13 (Checker faithfulness): a returned Checker method has run Engine.Check
\* once, on the context of its own arguments with its own permission (and,
\* for a convenience method, its own resource type), and the engine's
\* result is one the engine gives for that context; a Can method returns
\* nil iff that result allows and otherwise the denial error with the
\* engine's reason; CheckPermission returns the result's pair and no error;
\* RequirePermission returns an error iff that pair says denied.
CheckerFaithful ==
  (op \in CheckerNames /\ pc = "done") =>
    /\ check = StatedContext
    /\ result \in Eval(store, now, StatedContext.Permission)
    /\ op \in CanNames \cup ConvenienceNames =>
         /\ err = Nil <=> result.Allowed
         /\ ~result.Allowed => err = "access denied: " \o result.Reason
         /\ ret = <<>>
    /\ op = "CheckPermission" =>
         /\ ret = <<result.Allowed, result.Reason>>
         /\ err = Nil
    /\ op = "RequirePermission" =>
         /\ ret = <<result.Allowed, result.Reason>>
         /\ err = Nil <=> ret[1]
         /\ ~ret[1] => err = "access denied: " \o ret[2]

\* CanShareCategory has returned the denial of a check that found nothing,
\* on a category the user can only read.
CheckerFaithfulWitness ==
  /\ op = "CanShareCategory" /\ pc = "done"
  /\ err = "access denied: no permission found"
  /\ \E t \in BagToSet(store) :
       /\ t.resourceID = "c1" /\ t.subjectID = UserID
       /\ t.relation = RelationViewer

\* ---- failed sub-checks ----
\* The position of Engine.Check at which the sub-check of subject j at level
\* n calls HasPermission.
SiteAt(n, j) ==
  LET subjectType == EvalSubjects[j].subjectType
  IN  IF n = 0
      THEN CASE subjectType = SubjectTypeUser -> "step1"
             [] subjectType = SubjectTypeRole -> "step2role"
             [] OTHER -> "step3"
      ELSE CASE subjectType = SubjectTypeUser -> "walkUser"
             [] subjectType = SubjectTypeRole -> "walkRole"
             [] OTHER -> "walkTenant"

\* The results of the evaluation in which a sub-check whose lookup may fail
\* either answers as in Eval or fails, and a failed sub-check counts as a
\* denial of that sub-check alone.
RECURSIVE EvalFailingFrom(_, _, _, _)
EvalFailingFrom(time, permission, n, j) ==
  IF n > Len(AncestorSeq) THEN {CheckResult(FALSE, Nil, "no permission found")}
  ELSE IF j > Len(EvalSubjects) THEN EvalFailingFrom(time, permission, n + 1, 1)
  ELSE LET res == IF n = 0 THEN Resource(check.ResourceType, check.ResourceID)
                  ELSE CategoryAt(n)
           m == {t \in BagToSet(store) :
                   /\ t.tenantID = check.TenantID
                   /\ t.resourceType = res.resourceType /\ t.resourceID = res.resourceID
                   /\ t.subjectType = EvalSubjects[j].subjectType
                   /\ t.subjectID = EvalSubjects[j].subjectID}
           allow == {t \in m : ~Expired(t, time)
                                 /\ RelationGrantsPermission(t.relation, permission)}
       IN  {CheckResult(TRUE, t.relation, ReasonAt(n, EvalSubjects[j])) : t \in allow}
             \cup (IF m # {} /\ allow = m /\ SiteAt(n, j) \notin faults THEN {}
                   ELSE EvalFailingFrom(time, permission, n, j + 1))

\* C14 (a failed sub-check does not abort its siblings): Check returns a
\* result of the evaluation in which each failed HasPermission denies its own
\* sub-check only; when the lookup for the user on the target has failed,
\* the result is the one the role, tenant and hierarchy branches give, so
\* Check allows whenever those branches can only allow.
SiblingsStillRun ==
  (op = "Check" /\ pc = "return") =>
    /\ result \in EvalFailingFrom(now, check.Permission, 0, 1)
    /\ ~errs => result \in Eval(store, now, check.Permission)
    /\ (errs /\ faults = {"step1"})
         => result \in EvalFrom(store, now, check.Permission, 0, 2)

\* The lookup for the user on the target failed, where the user holds an
\* Owner tuple, and Check allowed through the tenant's tuple.
SiblingsStillRunWitness ==
  /\ op = "Check" /\ pc = "return"
  /\ errs /\ faults = {"step1"}
  /\ BagIn(PermissionTuple(TenantID, Resource(check.ResourceType, check.ResourceID),
                           RelationOwner, Subject(SubjectTypeUser, UserID), NoExpiry), store)
  /\ result.Allowed
  /\ via # <<>> /\ via[1].tuple.subjectType = SubjectTypeTenant

\* ---- store errors of the list operations ----
\* C15 (list operations propagate store errors): a returned ListPermissions
\* whose GetDirectPermissions failed, and a returned ListAccessibleResources
\* one of whose ListResourcesBySubject calls failed (for the user, for a
\* role or for the tenant wildcard), has returned an error.
ListErrorsPropagate ==
  /\ (op = "ListPermissions" /\ pc = "done" /\ errs) => err # Nil
  /\ (op = "ListAccessibleResources" /\ pc = "done" /\ failed # {}) => err # Nil

\* ListAccessibleResources has returned ids and no error although the list
\* of the tenant wildcard failed.
ListErrorSwallowed ==
  /\ op = "ListAccessibleResources" /\ pc = "done"
  /\ SubjectTypeTenant \in failed
  /\ err = Nil
  /\ resources # <<>>

\* ---- duplicate tuples ----
\* C16 (duplicate tuples): a successful Grant adds one tuple to the store,
\* also when the store holds an equal tuple already, and a successful Revoke
\* of a relation leaves one of two equal tuples in the store.
DuplicatesIndependent ==
  [][/\ (Idle /\ op' = "Grant" /\ err' = Nil /\ now' = now)
          => /\ BagCardinality(store') = BagCardinality(store) + 1
             /\ \A t \in BagToSet(store) : CopiesIn(t, store') >= CopiesIn(t, store)
     /\ (Idle /\ op' = "Revoke" /\ err' = Nil /\ revoked' = {} /\ now' = now)
          => \A t \in BagToSet(store) :
               CopiesIn(t, store) >= 2 => CopiesIn(t, store') >= 1]_vars

\* The store holds the same tuple twice and a Check has allowed on it.
DuplicateHeld ==
  /\ \E t \in BagToSet(store) : CopiesIn(t, store) = 2
  /\ op = "Check" /\ pc = "return" /\ result.Allowed

\* ---- concurrent writes ----
\* The store states between the start of the running call and now.
Instants == seen \cup {store}

\* C17 (concurrent use): the result Check returns is a result of its atomic
\* evaluation on the store as it was at one instant between the start and
\* the end of the Check, whatever Grant and Revoke calls ran meanwhile.
CheckLinearizable ==
  (op = "Check" /\ pc = "return")
    => \E S \in Instants : result \in Eval(S, now, check.Permission)

\* Check has denied although at every instant since its start the user or
\* the role held an Owner tuple on the document.
CheckTorn ==
  /\ op = "Check" /\ pc = "return"
  /\ ~result.Allowed
  /\ \A S \in Instants : \E t \in BagToSet(S) : t.resourceID = check.ResourceID

\* ---- failed parent resolution ----
\* The walk has evaluated the first categories above the target, in order.
WalkIsPrefix ==
  /\ Len(walk) <= Len(AncestorSeq)
  /\ \A n \in 1 .. Len(walk) : walk[n] = AncestorSeq[n]

\* C18 (a failed parent resolution stops the walk): when the lookup of the
\* document's category, of the target category's parent or of a next
\* parent has failed, Check returns the denial "no permission found", and the
\* categories it evaluated are the ones below the failure, in order: a tuple
\* on a category above it, granting or not, is never looked at.
ParentFailureStopsWalk ==
  (op = "Check" /\ pc = "return")
    => /\ WalkIsPrefix
       /\ errs => /\ result = CheckResult(FALSE, Nil, "no permission found")
                  /\ faults = {"step4"} => walk = <<>>
       /\ result.Allowed
            => \/ /\ via[1].tuple.resourceType = check.ResourceType
                  /\ via[1].tuple.resourceID = check.ResourceID
               \/ /\ via[1].tuple.resourceType = ResourceTypeCategory
                  /\ \E n \in 1 .. Len(walk) : via[1].tuple.resourceID = walk[n]

\* The lookup of the parent of c2 failed: the walk evaluated c2 alone and
\* Check denied Delete, while the user holds an Owner tuple on c1 above.
ParentFailureStopsWalkWitness ==
  /\ op = "Check" /\ pc = "return" /\ errs /\ faults = {"walkNext"}
  /\ check.ResourceType = ResourceTypeDocument
  /\ walk = <<"c2">>
  /\ ~result.Allowed
  /\ BagToSet(store) = {PermissionTuple(TenantID, Resource(ResourceTypeCategory, "c1"),
                                        RelationOwner, Subject(SubjectTypeUser, UserID),
                                        NoExpiry)}

\* ---- failed role lookup ----
\* The subjects of a user without roles.
NoRoleSubjects ==
  <<Subject(SubjectTypeUser, check.UserID), Subject(SubjectTypeTenant, TenantAll)>>

\* C19 (a failed role lookup means no roles): when GetUserRoleIDs has
\* failed, Check returns a result of its evaluation for the user and the
\* tenant wildcard alone, on the target and on every ancestor, and
\* ListAccessibleResources, its store lists healthy, returns without an
\* error the ids listed for the user and for the tenant wildcard.
RoleFailureIsNoRoles ==
  /\ (op = "Check" /\ pc = "return" /\ errs)
       => /\ roleIDs = <<>>
          /\ result \in EvalOverFrom(NoRoleSubjects, store, now, check.Permission, 0, 1)
  /\ (op = "ListAccessibleResources" /\ pc = "done" /\ errs /\ failed = {})
       => /\ err = Nil
          /\ {resources[j] : j \in 1 .. Len(resources)}
               = {t.resourceID : t \in {u \in BagToSet(store) :
                    /\ u.tenantID = check.TenantID
                    /\ u.resourceType = check.ResourceType
                    /\ \/ u.subjectType = SubjectTypeUser /\ u.subjectID = check.UserID
                       \/ u.subjectType = SubjectTypeTenant /\ u.subjectID = TenantAll}}

\* The role lookup failed; the role's Owner tuple on the document was passed
\* over and Check allowed through the tenant's tuple on the top category.
RoleFailureIsNoRolesWitness ==
  /\ op = "Check" /\ pc = "return" /\ errs
  /\ BagIn(PermissionTuple(TenantID, Resource(ResourceTypeDocument, "d1"), RelationOwner,
                           Subject(SubjectTypeRole, RoleA), NoExpiry), store)
  /\ result = CheckResult(TRUE, RelationOwner, "inherited from parent category via tenant")

\* ---- the permission argument of the listing ----
\* The tuples of the tenant on resources of the type asked for whose subject
\* stands for the user, of whatever relation.
TuplesOfUser ==
  {t \in BagToSet(store) :
     /\ t.tenantID = check.TenantID
     /\ t.resourceType = check.ResourceType
     /\ \E subj \in UserSubjects :
          t.subjectType = subj.subjectType /\ t.subjectID = subj.subjectID}

\* C20 (the listing ignores the permission): with healthy ports
\* ListAccessibleResources returns the resource of every tuple the store holds
\* for the user, a role of the user or the tenant wildcard on the requested
\* type, and nothing else, whatever the requested permission is and whether
\* or not the relation of the tuple grants it.
ListIgnoresPermission ==
  (op = "ListAccessibleResources" /\ pc = "done")
    => /\ err = Nil
       /\ \A t \in TuplesOfUser : \E j \in 1 .. Len(resources) : resources[j] = t.resourceID
       /\ \A j \in 1 .. Len(resources) : \E t \in TuplesOfUser : t.resourceID = resources[j]

\* The documents the user can delete were asked for and d1 is returned,
\* on which the user holds a Viewer tuple and nothing else.
ListIgnoresPermissionWitness ==
  /\ op = "ListAccessibleResources" /\ pc = "done"
  /\ check.ResourceType = ResourceTypeDocument
  /\ check.Permission = PermissionDelete
  /\ resources = <<"d1">>
  /\ BagToSet(store) = {PermissionTuple(TenantID, Resource(ResourceTypeDocument, "d1"),
                                        RelationViewer, Subject(SubjectTypeUser, UserID),
                                        NoExpiry)}
  /\ ~RelationGrantsPermission(RelationViewer, PermissionDelete)

\* ---- the reason of an allowing result ----
\* The tuple is on the checked resource.
OnTarget(t) ==
  t.resourceType = check.ResourceType /\ t.resourceID = check.ResourceID

\* The tuple is on a category above the checked resource.
OnAncestor(t) ==
  /\ t.resourceType = ResourceTypeCategory
  /\ t.resourceID \in Ancestors(check.ResourceType, check.ResourceID)

\* The reason the walk gives to a grant through a subject of the type.
InheritedReason(subjectType) ==
  CASE subjectType = SubjectTypeUser -> "inherited from parent category"
    [] subjectType = SubjectTypeRole -> "inherited from parent category via role"
    [] OTHER -> "inherited from parent category via tenant"

\* C21 as stated: the reason of an allowing Check is "direct permission"
\* iff the granting tuple is on the target, and the inherited reason of a
\* subject type iff the granting tuple is on an ancestor category with a
\* subject of that type; the relation is the one of the granting tuple.
ReasonIdentifiesPath ==
  (op = "Check" /\ pc = "return" /\ result.Allowed) =>
    LET t == via[1].tuple
    IN  /\ result.Relation = t.relation
        /\ result.Reason = "direct permission" <=> OnTarget(t)
        /\ \A subjectType \in {SubjectTypeUser, SubjectTypeRole, SubjectTypeTenant} :
             result.Reason = InheritedReason(subjectType)
               <=> (OnAncestor(t) /\ t.subjectType = subjectType)

\* C21 (the reason names the step that granted): the reason of an allowing
\* Check is "direct permission" iff one of the three sub-checks on the target
\* allowed, and the inherited reason of a subject type iff a sub-check of the
\* walk allowed, on the category the walk was at, with a subject of that
\* type; the relation is the one of the granting tuple.  When the target is
\* not among its own ancestors that is C21 as stated.
ReasonNamesStep ==
  (op = "Check" /\ pc = "return" /\ result.Allowed) =>
    LET t == via[1].tuple
    IN  /\ result.Relation = t.relation
        /\ result.Reason = "direct permission" <=> walk = <<>>
        /\ walk = <<>> => OnTarget(t)
        /\ walk # <<>> =>
             /\ t.resourceType = ResourceTypeCategory
             /\ t.resourceID = walk[Len(walk)]
             /\ OnAncestor(t)
             /\ result.Reason = InheritedReason(t.subjectType)
        /\ ~(check.ResourceType = ResourceTypeCategory
               /\ check.ResourceID \in Ancestors(check.ResourceType, check.ResourceID))
             => /\ result.Reason = "direct permission" <=> OnTarget(t)
                /\ \A subjectType \in {SubjectTypeUser, SubjectTypeRole, SubjectTypeTenant} :
                     result.Reason = InheritedReason(subjectType)
                       <=> (OnAncestor(t) /\ t.subjectType = subjectType)

\* On a cycle through the target category the lookup of the user on the
\* target failed, the walk came round to the target and Check allowed on the
\* user's tuple there, as inherited.
ReasonNamesStepWitness ==
  /\ op = "Check" /\ pc = "return" /\ result.Allowed /\ errs
  /\ check.ResourceType = ResourceTypeCategory
  /\ OnTarget(via[1].tuple)
  /\ via[1].tuple.subjectType = SubjectTypeUser
  /\ result.Reason = "inherited from parent category"
  /\ Len(walk) = 2

\* ---- the scope of Revoke ----
\* The step leaves in the store what a revocation with these arguments
\* leaves: no tuple of the tenant, resource and subject with the relation
\* (any relation for nil), and every other tuple as often as before.
RevokedExactly(tenantID, resourceType, resourceID, relation, subjectType, subjectID) ==
  /\ BagToSet(store') \subseteq BagToSet(store)
  /\ \A t \in BagToSet(store) :
       CopiesIn(t, store') =
         IF /\ t.tenantID = tenantID
            /\ t.resourceType = resourceType /\ t.resourceID = resourceID
            /\ t.subjectType = subjectType /\ t.subjectID = subjectID
            /\ (relation = Nil \/ t.relation = relation)
         THEN 0 ELSE CopiesIn(t, store)

TuplesOn(res) ==
  {t \in BagToSet(store) :
     /\ t.tenantID = TenantID
     /\ t.resourceType = res.resourceType /\ t.resourceID = res.resourceID}

DeleteHandlers == {"DeleteDocument", "DeleteCategory", "BatchDeleteDocuments"}

\* C23 (cascade on resource deletion): when DeleteDocument, DeleteCategory
\* or BatchDeleteDocuments has returned without error, the store holds no
\* tuple, of any subject, on a resource the handler deleted.
CascadeOnDelete ==
  (op \in DeleteHandlers /\ pc = "done" /\ response.err = Nil) =>
    \A res \in deleted : TuplesOn(res) = {}

\* DeleteDocument has deleted d1 and returned without error, and the Owner
\* tuple of the user on d1 is still stored.
CascadeSkipped ==
  /\ op = "DeleteDocument" /\ pc = "done" /\ response.err = Nil
  /\ deleted = {Resource(ResourceTypeDocument, "d1")}
  /\ \E t \in TuplesOn(Resource(ResourceTypeDocument, "d1")) : t.relation = RelationOwner

\* ---- ListPermissions ----
\* C24 (ListPermissions is the direct tuples): a ListPermissions that
\* returns without error returns each tuple stored under the tenant on the
\* resource itself as many times as it is stored, expired or not, and no
\* other tuple: none of another tenant, none of an ancestor category.
ListIsDirect ==
  (op = "ListPermissions" /\ pc = "done" /\ err = Nil) =>
    /\ BagToSet(resources) \subseteq BagToSet(store)
    /\ \A t \in BagToSet(store) :
         CopiesIn(t, resources) =
           IF /\ t.tenantID = check.TenantID
              /\ t.resourceType = check.ResourceType
              /\ t.resourceID = check.ResourceID
           THEN CopiesIn(t, store) ELSE 0

\* ListPermissions on the document has returned the user's expired tuple
\* and not the unexpired one on the document's category.
ListIsDirectWitness ==
  /\ op = "ListPermissions" /\ pc = "done" /\ err = Nil
  /\ check.ResourceType = ResourceTypeDocument
  /\ now > 0
  /\ BagToSet(store) =
       {PermissionTuple(TenantID, Resource(ResourceTypeDocument, "d1"), RelationViewer,
                        Subject(SubjectTypeUser, UserID), 0),
        PermissionTuple(TenantID, Resource(ResourceTypeCategory, "c2"), RelationViewer,
                        Subject(SubjectTypeUser, UserID), NoExpiry)}
  /\ BagToSet(resources) =
       {PermissionTuple(TenantID, Resource(ResourceTypeDocument, "d1"), RelationViewer,
                        Subject(SubjectTypeUser, UserID), 0)}

\* ---- the reason of a denial ----
DenyingCallers == CanNames \cup ConvenienceNames \cup {"CheckPermission", "RequirePermission"}

\* C25 (one reason for every denial): a denying result of Engine.Check has
\* the reason "no permission found" and no relation, whether a tuple was
\* missing, expired or not granting, a lookup failed or the hierarchy has a
\* cycle; the pair CheckPermission returns carries that reason and every
\* denial error of the Checker reads "access denied: no permission found".
DenialReason ==
  /\ (pc \in {"return", "require", "done"} /\ op \in DenyingCallers \cup {"Check"}
        /\ ~result.Allowed)
       => result = CheckResult(FALSE, Nil, "no permission found")
  /\ (pc \in {"require", "done"} /\ op \in {"CheckPermission", "RequirePermission"}
        /\ ~ret[1])
       => ret[2] = "no permission found"
  /\ (pc = "done" /\ op \in DenyingCallers /\ err # Nil)
       => err = "access denied: no permission found"

\* CanDelete on the document was denied after a lookup failed, with the
\* expired Owner tuple of the user on the top category stored.
DenialReasonWitness ==
  /\ op = "CanDelete" /\ pc = "done"
  /\ check.ResourceType = ResourceTypeDocument
  /\ err = "access denied: no permission found"
  /\ errs
  /\ now > 0
  /\ \E t \in BagToSet(store) : t.relation = RelationOwner /\ t.resourceID = "c1"

\* ---- no deny-override ----
\* The place of a tuple in the order of Check: 1 to 3 for the user, a role
\* of the user and the tenant wildcard on the target, 4 for one of these
\* subjects on an ancestor category, 0 for a tuple Check never reads.
PathOf(t) ==
  IF t.tenantID # check.TenantID
       \/ Subject(t.subjectType, t.subjectID) \notin UserSubjects THEN 0
  ELSE IF OnTarget(t)
       THEN CASE t.subjectType = SubjectTypeUser -> 1
              [] t.subjectType = SubjectTypeRole -> 2
              [] OTHER -> 3
  ELSE IF OnAncestor(t) THEN 4
  ELSE 0

\* The tuple is unexpired and its relation grants the permission of the check.
Allows(t) ==
  ~Expired(t, now) /\ RelationGrantsPermission(t.relation, check.Permission)

\* C26 (no deny-override): when a tuple on the target does not allow,
\* being expired or of a relation that does not grant the permission, and a
\* later path of the order (a role, the tenant wildcard, an ancestor
\* category) holds an unexpired granting tuple, a Check whose lookups all
\* succeed allows.
NoDenyOverride ==
  (op = "Check" /\ pc = "return" /\ ~errs
     /\ \E t \in BagToSet(store), g \in BagToSet(store) :
          /\ PathOf(t) \in 1 .. 3 /\ ~Allows(t)
          /\ PathOf(g) > PathOf(t) /\ Allows(g))
    => result.Allowed

\* Delete on the document is denied while the user holds a Viewer tuple on
\* it and the user's role a Viewer and an Owner tuple.
DenyOverrides ==
  /\ op = "Check" /\ pc = "return" /\ ~errs /\ ~result.Allowed
  /\ check.Permission = PermissionDelete
  /\ store \in OverrideStores
  /\ \E t \in BagToSet(store) :
       t.subjectType = SubjectTypeRole /\ t.relation = RelationOwner

\* ---- reading methods ----
\* The methods that write: Engine.Grant and Engine.Revoke.
WritingNames == {"Grant", "Revoke", "RevokeAccess"}

\* C27 (the reading methods are read-only): no step of Check,
\* GetEffectivePermissions, ListPermissions, ListAccessibleResources or of a
\* Checker method changes the store or the hierarchy; an expired tuple that
\* is read stays in the store.
ReadingIsReadOnly ==
  [][op' \notin WritingNames =>
       /\ store' = store
       /\ <<parent, docCat, parentOther, docCatOther, userRoles>>
            = <<parent, docCat, parentOther, docCatOther, userRoles>>']_vars

\* CanDeleteDocument was denied on the expired Owner tuple of the user,
\* which is still stored.
ReadingIsReadOnlyWitness ==
  /\ op = "CanDeleteDocument" /\ pc = "done" /\ err # Nil
  /\ now > 0
  /\ BagToSet(store) =
       {PermissionTuple(TenantID, Resource(ResourceTypeDocument, "d1"), RelationOwner,
                        Subject(SubjectTypeUser, UserID), 0)}

\* ---- the shape of the effective permissions ----
\* C28 (effective permissions of an unchanged store): when neither the
\* store nor the hierarchy changed during the call, the set
\* GetEffectivePermissions returns is empty or contains Read and Download,
\* and the highest relation is not Unspecified exactly when the set is not
\* empty.
EffectiveSetShape ==
  (op = "GetEffectivePermissions" /\ pc = "done") =>
    /\ permissions = {} \/ {PermissionRead, PermissionDownload} \subseteq permissions
    /\ (highestRelation # RelationUnspecified) <=> (permissions # {})

\* GetEffectivePermissions has returned Write without Read, with Owner as
\* the highest relation, on a store holding an expired and an unexpired
\* Owner tuple of the user on the document.
EffectiveSetTorn ==
  /\ op = "GetEffectivePermissions" /\ pc = "done"
  /\ PermissionWrite \in permissions /\ PermissionRead \notin permissions
  /\ highestRelation = RelationOwner
  /\ BagToSet(store) = EffectiveTuples
  /\ now > 0

\* ---- batch deletion ----
\* The requested ids, those with a check that allowed and those with a
\* check that denied, as the handler's calls of CanDeleteDocument answered.
Requested(cs) == {cs[j].id : j \in 1 .. Len(cs)}
Passed(cs) == {cs[j].id : j \in {n \in 1 .. Len(cs) : cs[n].allowed}}
Denied(cs) == {cs[j].id : j \in {n \in 1 .. Len(cs) : ~cs[n].allowed}}

\* The last step of a BatchDeleteDocuments.
BatchReturns ==
  svc.name = "BatchDeleteDocuments" /\ op' = "BatchDeleteDocuments" /\ pc' = "done"

\* The step removes tuples only under the handler's tenant, on documents
\* with one of the ids.
RemovesOnly(ids) ==
  /\ BagToSet(store') \subseteq BagToSet(store)
  /\ \A t \in BagToSet(store) :
       CopiesIn(t, store') # CopiesIn(t, store) =>
         /\ t.tenantID = TenantID /\ t.resourceType = ResourceTypeDocument
         /\ t.resourceID \in ids

\* C29 as stated: no document whose check denied is deleted, only ids whose
\* check passed go to the repository, every requested id whose check denied
\* is in FailedIds, and permissions are removed only for ids that passed and
\* are not in FailedIds.
BatchDeleteAuthorized ==
  [][BatchReturns =>
       /\ deleted' \cap {Resource(ResourceTypeDocument, id) : id \in Denied(checks')} = {}
       /\ handed' \subseteq Passed(checks')
       /\ response'.err = Nil => Denied(checks') \subseteq IDsOf(response'.FailedIds)
       /\ RemovesOnly(Passed(checks') \ IDsOf(response'.FailedIds))]_vars

\* C29 as amended: only ids with a check that passed go to the repository
\* and are deleted, every requested id none of whose checks passed is in
\* FailedIds, and permissions are removed only for ids that passed a check
\* and are not in FailedIds.
BatchDeleteAuthorizedOnce ==
  [][BatchReturns =>
       /\ deleted' \subseteq {Resource(ResourceTypeDocument, id) : id \in Passed(checks')}
       /\ handed' \subseteq Passed(checks')
       /\ response'.err = Nil =>
            Requested(checks') \ Passed(checks') \subseteq IDsOf(response'.FailedIds)
       /\ RemovesOnly(Passed(checks') \ IDsOf(response'.FailedIds))]_vars

\* A batch for d1 and d2 by the owner of d1 alone has deleted d1 with its
\* tuple and reported d2 as failed.
BatchDeleteAuthorizedWitness ==
  /\ op = "BatchDeleteDocuments" /\ pc = "done" /\ response.err = Nil
  /\ checks = <<[id |-> "d1", allowed |-> TRUE], [id |-> "d2", allowed |-> FALSE]>>
  /\ deleted = {Resource(ResourceTypeDocument, "d1")}
  /\ response.FailedIds = <<"d2">>
  /\ response.DeletedCount = 1
  /\ store = EmptyBag
  /\ ~errs

\* ---- document processing ----
TerminalStatuses == {statusCompleted, statusFailed, statusSkipped}

\* The terminal status the claim gives to a call by what happened in it.
StatedTerminal ==
  IF proc.mimeType \notin {mimeTypePDF, mimeTypeDOC, mimeTypeDOCX} THEN statusSkipped
  ELSE IF proc.conversionFailed \/ proc.extractionFailed THEN statusFailed
  ELSE statusCompleted

\* C30 (processing status flow): a ProcessDocument that has returned has
\* written PROCESSING and then exactly one terminal status, COMPLETED for a
\* PDF or a converted DOC/DOCX whose text was extracted, FAILED after a
\* failed conversion or extraction, SKIPPED for another MIME type, so that
\* the document is not left in PROCESSING; COMPLETED is never written after
\* a failed conversion or extraction.
StatusFlow ==
  /\ (Len(written) > 0 => written[1] = statusProcessing)
  /\ \A n \in 2 .. Len(written) : written[n] \in TerminalStatuses
  /\ (proc.conversionFailed \/ proc.extractionFailed)
       => \A n \in 1 .. Len(written) : written[n] # statusCompleted
  /\ proc.pc = "returned" =>
       /\ written = <<statusProcessing, StatedTerminal>>
       /\ status[proc.documentID] # statusProcessing

\* ProcessDocument has returned after a failed text extraction of a PDF and
\* the document's status is still PROCESSING.
LeftInProcessing ==
  /\ proc.pc = "returned"
  /\ proc.mimeType = mimeTypePDF
  /\ proc.extractionFailed
  /\ written = <<statusProcessing>>
  /\ status[proc.documentID] = statusProcessing

====
